---- MODULE Spec2Model ----
(***************************************************************************)
(* Agentic-Router: the router_app agent resolution and RPC forwarding      *)
(* subsystem.                                                              *)
(*                                                                         *)
(*   A2AClient.send_message     services/a2a_client.py  (bounded retries)  *)
(*   resolve_assistant_id etc.  services/discovery.py   (assistant cache)  *)
(*   a2a_send                   nodes/a2a_send.py       (thread store)     *)
(*                                                                         *)
(* and the forward, reply-parsing and URL-building code of the other       *)
(* packages of the repository (agentic_router, src/agentic_router,         *)
(* src/nodes), which implement the same subsystem on a LangGraph state.    *)
(*                                                                         *)
(* Python coroutines run on one event loop: the code between two awaits    *)
(* is atomic.  Every action below is one such stretch of one task: it      *)
(* starts at a call or at the completion of an awaited operation (an HTTP  *)
(* POST, a backoff sleep) and runs to the next await, return or raise.     *)
(***************************************************************************)
EXTENDS Integers, Sequences, FiniteSets, TLC

VARIABLES
    assistant_id_cache, \* discovery._assistant_id_cache: (key, host, port) -> UUID
    pc,                 \* per task: "idle", "search", "post", "sleep", "done"
    call,               \* per task: the arguments of the running/last call
    frame,              \* per task: send_message's locals and I/O counts
    searches,           \* per task: /assistants/search POSTs issued by the call
    out,                \* per task: how the last call ended (return or raise)
    hist,               \* history: responses the send_message call under way received
    last_resolved,      \* history: id of the latest successful resolve per cache
                        \* key since the cache was last cleared
    fn_arg,             \* argument of a function applied on its own
    fn_res,             \* its result
    impl,               \* the package whose graph is running
    thread_context,     \* a2a_send._thread_context: (host, port, assistant_id) -> thread id
    a2a,                \* per task: a2a_send's locals and the state it returns
    graph_state,        \* the AgentState a LangGraph thread keeps between turns
    turn,               \* the last turn run on graph_state: request sent, outcome
    last_thread,        \* history: per agent key, the thread id of the latest
                        \* successful forward whose reply carried one
    config,             \* what get_config() returns (agents_config.yaml)
    run,                \* per task: the RouterState of its run of the router_app
                        \* graph, the node to run next, and the I/O of the run
    fs,                 \* AGENTS_CONFIG_PATH and the configuration files on disk
    loader              \* config.py's globals _config, _config_path, _last_mtime,
                        \* and how the last call of get_config ended

vars == <<assistant_id_cache, pc, call, frame, searches, out, hist, last_resolved,
          fn_arg, fn_res, impl, thread_context, a2a, graph_state, turn, last_thread,
          config, run, fs, loader>>

\* the state of the configuration loader
loadVars == <<fs, loader>>

\* the state of forwarding
fwdVars == <<impl, thread_context, a2a, graph_state, turn, last_thread>>

\* the state of the graph runs
runVars == <<config, run, loadVars>>

\* the state of the tasks
taskVars == <<pc, call, frame, searches, out, hist>>

\* the function harness
fnVars == <<fn_arg, fn_res>>

None == "None"

Tasks == {"t1", "t2"}

(***************************************************************************)
(* Bounds of the model.                                                    *)
(***************************************************************************)
MaxAttempts == 3        \* retries.attempts ranges over 0..MaxAttempts (direct calls)
MaxRegAttempts == 2     \* retries.attempts ranges over 0..MaxRegAttempts (resolver)
MaxRecords == 2         \* records in one /assistants/search reply
MaxParts == 2           \* parts in one parts array of a reply
MaxHostLen == 3         \* tokens of a host after its scheme prefix
MaxPathLen == 3         \* tokens of a base path and of an endpoint
MaxMessages == 2        \* entries of one messages array of a reply

(***************************************************************************)
(* Assistant ids.  uuid.UUID(s) parses a string and str() prints the       *)
(* canonical lower-case form, so two spellings can name one UUID.          *)
(***************************************************************************)
Uuid1 == "3fae-01"
Uuid1Upper == "3FAE-01"
Uuid2 == "77c2-02"
RegistryUuid == "0e91-99"
MalformedId == "not-a-uuid"

IdStrings == {Uuid1, Uuid1Upper, Uuid2, MalformedId}

\* uuid.UUID(s) succeeds
IsUuidString(s) == s \in {Uuid1, Uuid1Upper, Uuid2, RegistryUuid}

\* the UUID object uuid.UUID(s) yields, named by its canonical spelling
UUID(s) == IF s = Uuid1Upper THEN Uuid1 ELSE s

(***************************************************************************)
(* Exceptions.                                                             *)
(***************************************************************************)
NoError == [type |-> "none", status |-> 0, msg |-> ""]

Exc(type, status, msg) == [type |-> type, status |-> status, msg |-> msg]

(***************************************************************************)
(* HTTP: what one awaited POST of send_message can come back with.         *)
(***************************************************************************)
NotJsonText == "no such project"
JsonText(s) == "{\"assistant_id\": \"" \o s \o "\"}"
EmptyJsonText == "{}"

\* result.artifacts[0].parts[0].text of a decoded body ("" : absent or empty)
Texts == {"", NotJsonText, EmptyJsonText} \cup {JsonText(s) : s \in IdStrings}

UndecodableBody == [decodable |-> FALSE, text |-> ""]
JsonBodies == [decodable : {TRUE}, text : Texts]

ErrorStatuses == {404, 500, 502, 503, 504}

Responses ==
    [kind : {"timeout", "network"}, status : {0}, body : {UndecodableBody}]
    \cup [kind : {"http"}, status : ErrorStatuses, body : {UndecodableBody}]
    \cup [kind : {"http"}, status : {200}, body : JsonBodies \cup {UndecodableBody}]

(***************************************************************************)
(* A2AClient.send_message, the retry loop.                                 *)
(***************************************************************************)
RetriableStatusMut == {502, 503}
RetriableStatus == {502, 503, 504}

\* response.raise_for_status()
IsSuccess(resp) == resp.kind = "http" /\ resp.status >= 200 /\ resp.status < 300

\* the exception lines 74-76 raise for a response that yields no body
ErrorOf(resp) ==
    CASE resp.kind = "timeout" -> Exc("TimeoutException", 0, "")
      [] resp.kind = "network" -> Exc("NetworkError", 0, "")
      [] resp.kind = "http" /\ ~IsSuccess(resp) -> Exc("HTTPStatusError", resp.status, "")
      [] OTHER -> Exc("JSONDecodeError", 0, "")

\* except (httpx.TimeoutException, httpx.NetworkError, httpx.HTTPStatusError)
Caught(e) == e.type \in {"TimeoutException", "NetworkError", "HTTPStatusError"}

\* if isinstance(e, HTTPStatusError) and status not in [502, 503, 504]: raise
NonRetriableStatusMut(e) == e.type = "HTTPStatusError" /\ e.status \notin (RetriableStatus \cup {500})
NonRetriableStatus(e) == e.type = "HTTPStatusError" /\ e.status \notin RetriableStatus

\* if attempt + 1 < attempts: sleep, else: raise
MoreAttemptsMut(f) == f.attempt + 1 <= f.attempts
MoreAttempts(f) == f.attempt + 1 < f.attempts

UnexpectedError == Exc("Exception", 0, "A2A client failed unexpectedly.")

NoBody == UndecodableBody

NoTarget == <<"", 0, None>>

NoFrame == [attempts |-> 0, attempt |-> 0, sends |-> 0, sleeps |-> 0, to |-> NoTarget]

\* One loop iteration from the completion of the POST (lines 74-87):
\* "ret" returns body, "raise" raises err, "sleep" awaits the backoff.
AttemptOutcome(f, resp) ==
    IF IsSuccess(resp) /\ resp.body.decodable
    THEN [next |-> "ret", body |-> resp.body, err |-> NoError]
    ELSE LET e == ErrorOf(resp) IN
         IF ~Caught(e) \/ NonRetriableStatus(e)
         THEN [next |-> "raise", body |-> NoBody, err |-> e]
         ELSE IF MoreAttempts(f)
              THEN [next |-> "sleep", body |-> NoBody, err |-> NoError]
              ELSE [next |-> "raise", body |-> NoBody, err |-> e]

\* entering the loop (line 72): range(attempts) is empty for attempts <= 0
LoopEmptyMut(attempts) == attempts < 0
LoopEmpty(attempts) == attempts <= 0

\* the frame when the first POST is issued
FirstPost(attempts, to) ==
    [attempts |-> attempts, attempt |-> 0, sends |-> 1, sleeps |-> 0, to |-> to]

\* the frame when the backoff sleep is entered (line 84)
EnterSleep(f) == [f EXCEPT !.sleeps = @ + 1]

\* the frame when the next iteration issues its POST
NextPost(f) == [f EXCEPT !.attempt = @ + 1, !.sends = @ + 1]

(***************************************************************************)
(* JSON-RPC replies.  A field that is absent, null or not of the type the  *)
(* code tests for is None; an array that is absent or empty is <<>>.       *)
(***************************************************************************)
\* the strings s with s.strip() == ""
Blank == {"", "  "}

\* isinstance(v, str) and v.strip()
NonBlank(v) == v # None /\ v \notin Blank

\* the truth value of an Optional[str]
Truthy(v) == v # None /\ v # ""

\* one element of a parts array
NoPart == [kind |-> None, type |-> None, text |-> None, content |-> None]
KindPart(kind, t) == [NoPart EXCEPT !.kind = kind, !.text = t]
TypePart(type, t) == [NoPart EXCEPT !.type = type, !.text = t]
ContentPart(c) == [NoPart EXCEPT !.content = c]

\* result.artifacts[i], result.messages[i], result.history[i]
ArtifactOf(parts, t) == [parts |-> parts, text |-> t]
MessageOf(role, content, parts) == [role |-> role, content |-> content, parts |-> parts]
HistoryOf(role, parts) == [role |-> role, parts |-> parts]

\* rpc_response.get("result", {}) when the reply has no result or an empty one
EmptyResult ==
    [contextId |-> None, threadId |-> None, thread_threadId |-> None,
     context_threadId |-> None, artifacts |-> <<>>, messages |-> <<>>,
     history |-> <<>>, output_text |-> None, content |-> None, text |-> None,
     choices_content |-> None]

\* the A2A reply of the end-to-end scenario: artifacts[0].parts[0] and contextId
ArtifactResult(t, ctx) ==
    [EmptyResult EXCEPT !.artifacts = <<ArtifactOf(<<KindPart("text", t)>>, None)>>,
                        !.contextId = ctx]

\* what a normalizer gives: "ok" with text and thread id, or "raise"
Normalized(text, thread_id) ==
    [status |-> "ok", text |-> text, thread_id |-> thread_id, err |-> NoError]
NotNormalized(e) == [status |-> "raise", text |-> None, thread_id |-> None, err |-> e]

(***************************************************************************)
(* src/agentic_router/nodes/forward.py: the reply parser.                  *)
(***************************************************************************)
\* _first_str(*vals)
RECURSIVE FirstStrFrom(_, _)
FirstStrFrom(vals, i) ==
    IF i > Len(vals) THEN None
    ELSE IF NonBlank(vals[i]) THEN vals[i]
    ELSE FirstStrFrom(vals, i + 1)

FirstStr(vals) == FirstStrFrom(vals, 1)

\* _from_parts(parts), from the i-th part on
RECURSIVE FromPartsFrom(_, _)
FromPartsFrom(parts, i) ==
    IF i > Len(parts) THEN None
    ELSE LET p == parts[i] IN
         IF NonBlank(p.text) THEN p.text
         ELSE IF p.type = "text" /\ p.text # None THEN p.text
         ELSE IF NonBlank(p.content) THEN p.content
         ELSE FromPartsFrom(parts, i + 1)

FromParts(parts) == FromPartsFrom(parts, 1)

\* lines 86-91
ThreadOf(result) ==
    FirstStr(<<result.contextId, result.threadId, result.thread_threadId,
               result.context_threadId>>)

\* lines 111-112: the last assistant/ai entry, else the last entry
LastAssistant(msgs) ==
    IF \E i \in 1..Len(msgs) : msgs[i].role \in {"assistant", "ai"}
    THEN msgs[CHOOSE i \in 1..Len(msgs) :
                  /\ msgs[i].role \in {"assistant", "ai"}
                  /\ \A j \in (i + 1)..Len(msgs) : msgs[j].role \notin {"assistant", "ai"}]
    ELSE msgs[Len(msgs)]

\* lines 94-105: text of the artifacts shape, None when it gives none
ArtifactsText(result) ==
    IF result.artifacts = <<>> THEN None
    ELSE LET first == result.artifacts[1] IN
         IF Truthy(FromParts(first.parts)) THEN FromParts(first.parts)
         ELSE IF NonBlank(first.text) THEN first.text
         ELSE None

\* lines 108-120: text of the messages shape
MessagesText(result) ==
    IF result.messages = <<>> THEN None
    ELSE LET ass == LastAssistant(result.messages) IN
         IF NonBlank(ass.content) THEN ass.content
         ELSE IF Truthy(FromParts(ass.parts)) THEN FromParts(ass.parts)
         ELSE None

\* lines 123-126: the flat string fields
FlatText(result) == FirstStr(<<result.output_text, result.content, result.text>>)

\* lines 129-137: choices[0].message.content
ChoicesText(result) ==
    IF NonBlank(result.choices_content) THEN result.choices_content ELSE None

KeyErrorShape == Exc("KeyError", 0, "Unrecognized result shape")

\* _extract_text_and_thread(result)
ExtractTextAndThread(result) ==
    LET texts == <<ArtifactsText(result), MessagesText(result), FlatText(result),
                   ChoicesText(result)>>
        found == {i \in 1..Len(texts) : texts[i] # None} IN
    IF found = {} THEN NotNormalized(KeyErrorShape)
    ELSE Normalized(texts[CHOOSE i \in found : \A j \in found : i <= j], ThreadOf(result))

(***************************************************************************)
(* A decoded reply body: a top-level error member or not, and the result.  *)
(***************************************************************************)
ReplyBody(has_error, result) ==
    [decodable |-> TRUE, has_error |-> has_error, result |-> result]

AgentError == Exc("RuntimeError", 0, "Agent error")
InvalidStructure == Exc("ValueError", 0, "Invalid response structure from agent.")

\* src/agentic_router/nodes/forward.py lines 184-196
SarNormalize(body) ==
    IF body.has_error THEN NotNormalized(AgentError)
    ELSE LET r == ExtractTextAndThread(body.result) IN
         IF r.status = "raise" THEN NotNormalized(InvalidStructure) ELSE r

(***************************************************************************)
(* src/nodes/forward.py: extract_response_text(rpc_response).              *)
(***************************************************************************)
NoResultError == Exc("ValueError", 0, "No result found in JSON-RPC response")
NoTextError == Exc("ValueError", 0, "Could not extract response text from agent response")

\* text_part.get("text", "")
TextOrEmpty(part) == IF part.text = None THEN "" ELSE part.text

\* lines 97-105: the last "agent" entry of history[1..i] whose first part is text
RECURSIVE HistoryTextUpTo(_, _)
HistoryTextUpTo(history, i) ==
    IF i = 0 THEN None
    ELSE LET message == history[i] IN
         IF /\ message.role = "agent"
            /\ message.parts # <<>>
            /\ message.parts[1].kind = "text"
         THEN TextOrEmpty(message.parts[1])
         ELSE HistoryTextUpTo(history, i - 1)

ExtractResponseText(body) ==
    IF body.has_error THEN NotNormalized(AgentError)
    ELSE LET result == body.result IN
         IF result = EmptyResult THEN NotNormalized(NoResultError)
         ELSE IF /\ result.artifacts # <<>>
                 /\ result.artifacts[1].parts # <<>>
                 /\ result.artifacts[1].parts[1].kind = "text"
         THEN Normalized(TextOrEmpty(result.artifacts[1].parts[1]), result.contextId)
         ELSE IF HistoryTextUpTo(result.history, Len(result.history)) # None
         THEN Normalized(HistoryTextUpTo(result.history, Len(result.history)),
                         result.contextId)
         ELSE NotNormalized(NoTextError)

(***************************************************************************)
(* router_app/nodes/a2a_send.py lines 51-56 and                            *)
(* agentic_router/nodes/forward.py lines 65-80: artifacts[0].parts[0].text *)
(***************************************************************************)
MissingTextError ==
    Exc("ValueError", 0, "Response from agent is missing expected text content.")

\* result.get("artifacts", [{}])[0].get("parts", [{}])[0].get("text")
FirstPartText(result) ==
    IF result.artifacts = <<>> THEN None
    ELSE IF result.artifacts[1].parts = <<>> THEN None
    ELSE result.artifacts[1].parts[1].text

\* a2a_send: the top-level error member is not looked at
A2aNormalize(body) ==
    IF ~Truthy(FirstPartText(body.result)) THEN NotNormalized(MissingTextError)
    ELSE Normalized(FirstPartText(body.result), body.result.contextId)

\* agentic_router forward: a missing key or index raises, any text is taken
ArNormalize(body) ==
    IF body.has_error THEN NotNormalized(AgentError)
    ELSE IF FirstPartText(body.result) = None THEN NotNormalized(InvalidStructure)
    ELSE Normalized(FirstPartText(body.result), body.result.contextId)

(***************************************************************************)
(* The message/send request: params.thread.threadId and params.contextId.  *)
(***************************************************************************)
NoThreadPayload == [has_thread |-> FALSE, threadId |-> None, contextId |-> None]

\* a2a_client.py lines 56-58
ClientPayload(thread_id) ==
    IF Truthy(thread_id)
    THEN [NoThreadPayload EXCEPT !.has_thread = TRUE, !.threadId = thread_id]
    ELSE NoThreadPayload

\* agentic_router/nodes/forward.py lines 19-21
ArPayload(thread_id) ==
    IF Truthy(thread_id)
    THEN [NoThreadPayload EXCEPT !.contextId = thread_id]
    ELSE NoThreadPayload

\* src/agentic_router/nodes/forward.py line 38: thread_id or ""
SarPayload(thread_id) ==
    [NoThreadPayload EXCEPT !.has_thread = TRUE,
                            !.threadId = IF Truthy(thread_id) THEN thread_id ELSE ""]

\* f"thread_{uuid.uuid4().hex[:8]}": the values the model lets uuid4 give
GeneratedThreadIds == {"thread_5b1e22c7"}

\* src/nodes/forward.py line 42: thread_id or a generated id (generated)
SnPayload(thread_id, generated) ==
    [NoThreadPayload EXCEPT !.has_thread = TRUE,
                            !.threadId = IF Truthy(thread_id) THEN thread_id ELSE generated]

\* the state a2a_send returns, and its locals, before any call
NoFwdOut == [status |-> "none", response_text |-> None, thread_id |-> None, err |-> NoError]

\* what a reply carried: a top-level error member, a contextId
NoReply == [has_error |-> FALSE, contextId |-> None]

\* reply (history): what the reply that ended the call carried
NoA2a == [target_agent_key |-> None, thread_key |-> NoTarget, thread_id |-> None,
          payload |-> NoThreadPayload, res |-> NoFwdOut, reply |-> NoReply]

(***************************************************************************)
(* Calls.                                                                  *)
(***************************************************************************)
AgentKeys == {"gitlab", "jira"}

NoRegistry == [host |-> "", port |-> 0, assistant_id |-> None]
TheRegistry == [host |-> "127.0.0.1", port |-> 2026, assistant_id |-> RegistryUuid]

AgentPort(k) == IF k = "gitlab" THEN 9001 ELSE 9002
AgentName(k) == IF k = "gitlab" THEN "gitlab-agent" ELSE "jira-agent"

\* types.AgentConfig values the model passes for agent key k
AgentConfigs(k) ==
    [host : {"127.0.0.1"}, port : {AgentPort(k)}, name : {AgentName(k)},
     registry_enabled : BOOLEAN, assistant_id : {None, Uuid1}]

\* Optional[RegistryConfig]
RegistryConfigs == {NoRegistry, TheRegistry}

NoAgent == [host |-> "", port |-> 0, name |-> "", registry_enabled |-> FALSE,
            assistant_id |-> None]

NoCall == [op |-> "none", agent_key |-> None, agent_config |-> NoAgent,
           registry_config |-> NoRegistry, attempts |-> 0]

NoOut == [status |-> "none", id |-> None, body |-> NoBody, err |-> NoError, via |-> ""]

Returned(id, body, via) ==
    [status |-> "ret", id |-> id, body |-> body, err |-> NoError, via |-> via]

Raised(e) == [status |-> "raise", id |-> None, body |-> NoBody, err |-> e, via |-> ""]

SendTarget(host, port, assistant_id) == <<host, port, assistant_id>>

EmptyMap == [x \in {} |-> None]

Put(m, k, v) == (k :> v) @@ m

\* types.AgentInfo; no agent_info in the state
NoAgentInfo == [host |-> "", port |-> 0, assistant_id |-> None]

\* types.Config: agents, registry, routing.mode, routing.default_agent and
\* retries.attempts
NoConfig == [agents |-> EmptyMap, registry |-> NoRegistry, mode |-> "keywords",
             default_agent |-> None, attempts |-> 0]

\* types.RouterState; input_text is the sequence of the phrases of the text
NoState == [input_text |-> <<>>, target_agent_key |-> None, agent_info |-> NoAgentInfo,
            thread_id |-> None, response_text |-> None, error |-> None]

\* node: the node the graph runs next ("none": no run, "end": the run is
\* over); history: the send_message calls for the target and the POSTs the
\* run has made
NoRun == [node |-> "none", state |-> NoState, send_calls |-> 0, target_sends |-> 0,
          search_posts |-> 0, registry_sends |-> 0]

\* the caller takes the result of the finished call; its frames are gone
TakeResult(p) ==
    /\ pc[p] = "done"
    /\ run[p].node = "none"
    /\ pc' = [pc EXCEPT ![p] = "idle"]
    /\ call' = [call EXCEPT ![p] = NoCall]
    /\ frame' = [frame EXCEPT ![p] = NoFrame]
    /\ searches' = [searches EXCEPT ![p] = 0]
    /\ out' = [out EXCEPT ![p] = NoOut]
    /\ hist' = [hist EXCEPT ![p] = <<>>]
    /\ a2a' = [a2a EXCEPT ![p] = NoA2a]
    /\ UNCHANGED <<assistant_id_cache, last_resolved, fnVars, impl, thread_context,
                   graph_state, turn, last_thread, runVars>>

(***************************************************************************)
(* A direct call of A2AClient.send_message (as a2a_send makes it).         *)
(***************************************************************************)
\* retries.attempts is any int (types.py line 57 sets no lower bound)
StartSend(p) ==
    /\ pc[p] = "idle"
    /\ \E attempts \in (-1)..MaxAttempts :
         /\ call' = [call EXCEPT ![p] = [NoCall EXCEPT !.op = "send", !.attempts = attempts]]
         /\ IF LoopEmpty(attempts)
            THEN /\ pc' = [pc EXCEPT ![p] = "done"]
                 /\ frame' = [frame EXCEPT ![p] = [NoFrame EXCEPT !.attempts = attempts]]
                 /\ out' = [out EXCEPT ![p] = Raised(UnexpectedError)]
            ELSE /\ pc' = [pc EXCEPT ![p] = "post"]
                 /\ frame' = [frame EXCEPT ![p] =
                        FirstPost(attempts, SendTarget("127.0.0.1", 9001, Uuid1))]
                 /\ out' = out
    /\ UNCHANGED <<assistant_id_cache, last_resolved, searches, hist, fnVars, fwdVars, runVars>>

\* the awaited POST of a direct call completes with resp
SendPostReply(p) ==
    /\ pc[p] = "post"
    /\ call[p].op = "send"
    /\ \E resp \in Responses :
         LET o == AttemptOutcome(frame[p], resp) IN
         /\ hist' = [hist EXCEPT ![p] = Append(@, resp)]
         /\ IF o.next = "sleep"
            THEN /\ pc' = [pc EXCEPT ![p] = "sleep"]
                 /\ frame' = [frame EXCEPT ![p] = EnterSleep(@)]
                 /\ out' = out
            ELSE /\ pc' = [pc EXCEPT ![p] = "done"]
                 /\ frame' = frame
                 /\ out' = [out EXCEPT ![p] =
                        IF o.next = "ret" THEN Returned(None, o.body, "") ELSE Raised(o.err)]
    /\ UNCHANGED <<assistant_id_cache, call, searches, last_resolved, fnVars, fwdVars, runVars>>

(***************************************************************************)
(* discovery._search_on_target: POST /assistants/search on the agent.      *)
(***************************************************************************)
RecordNames == {"gitlab-agent", "jira-agent"}

\* one returned record; assistant_id "" : the field is absent or empty
SearchRecords == [name : RecordNames, assistant_id : IdStrings \cup {""}]

RECURSIVE SeqsUpTo(_, _)
SeqsUpTo(S, n) ==
    IF n = 0 THEN {<<>>}
    ELSE LET shorter == SeqsUpTo(S, n - 1) IN
         shorter \cup {Append(q, x) : q \in {r \in shorter : Len(r) = n - 1}, x \in S}

\* what the awaited search POST can come back with: no response, an error
\* status, a body that is not JSON, a JSON array of records, or a JSON
\* object whose "items" are the records
SearchResponses ==
    [kind : {"request_error", "status_error", "not_json"}, records : {<<>>}]
    \cup [kind : {"list", "object"}, records : SeqsUpTo(SearchRecords, MaxRecords)]

NoId == [status |-> "none", id |-> None]
RaisedId == [status |-> "raise", id |-> None]

\* a.get("name") == agent_config.name and a.get("assistant_id")
IsMatch(a, name) == a.name = name /\ a.assistant_id # ""

\* lines 87-111: "id" returns a UUID, "none" returns None, "raise" lets an
\* exception escape (HTTPStatusError; AttributeError: iterating a JSON object
\* yields its keys, and a string has no get)
SearchOnTarget(resp, name) ==
    CASE resp.kind = "request_error" -> NoId
      [] resp.kind = "status_error" -> RaisedId
      [] resp.kind = "not_json" -> NoId
      [] resp.kind = "object" -> RaisedId
      [] OTHER ->
           LET matches == SelectSeq(resp.records, LAMBDA a : IsMatch(a, name)) IN
           IF Len(matches) = 1
           THEN IF IsUuidString(matches[1].assistant_id)
                THEN [status |-> "id", id |-> UUID(matches[1].assistant_id)]
                ELSE NoId
           ELSE NoId

(***************************************************************************)
(* utils.fetch_assistant_id, the search of the agentic_router package.     *)
(* The modelled records carry no "id" field, so pick_id is assistant_id.   *)
(***************************************************************************)
\* rec.get("assistant_id") or rec.get("id")
PickId(rec) == IF rec.assistant_id # "" THEN rec.assistant_id ELSE None

\* index of the first record named n, 0 if there is none (lines 142-145)
FirstNamed(records, n) ==
    IF \E i \in 1..Len(records) : records[i].name = n
    THEN CHOOSE i \in 1..Len(records) :
            /\ records[i].name = n
            /\ \A j \in 1..(i - 1) : records[j].name # n
    ELSE 0

\* lines 125-162: "id" returns the id string, "raise" raises
FetchAssistantId(resp, expected_name) ==
    IF resp.kind \notin {"list", "object"} THEN RaisedId
    ELSE LET records == resp.records
             assistant_id ==
                 IF expected_name # None
                 THEN IF FirstNamed(records, expected_name) = 0 THEN None
                      ELSE PickId(records[FirstNamed(records, expected_name)])
                 ELSE IF Len(records) # 1 THEN None ELSE PickId(records[1])
         IN IF assistant_id = None THEN RaisedId
            ELSE IF ~IsUuidString(assistant_id) THEN RaisedId
            ELSE [status |-> "id", id |-> assistant_id]

\* agentic_router/nodes/discover.py lines 43-73, from the reply of the search
\* POST: "id" returns the assistant_id string of the first record of that
\* name, "raise" raises
Discover(resp, expected_name) ==
    IF resp.kind # "list" THEN RaisedId
    ELSE LET i == FirstNamed(resp.records, expected_name) IN
         IF i = 0 THEN RaisedId
         ELSE IF resp.records[i].assistant_id = "" THEN RaisedId
         ELSE [status |-> "id", id |-> resp.records[i].assistant_id]

(***************************************************************************)
(* discovery._query_registry, from the end of its send_message call.       *)
(***************************************************************************)
\* json.loads(text) and data.get("assistant_id"); ok = FALSE : JSONDecodeError
JsonLoads(t) ==
    IF \E s \in IdStrings : t = JsonText(s)
    THEN [ok |-> TRUE, assistant_id |-> CHOOSE s \in IdStrings : t = JsonText(s)]
    ELSE IF t = EmptyJsonText
         THEN [ok |-> TRUE, assistant_id |-> ""]
         ELSE [ok |-> FALSE, assistant_id |-> ""]

\* lines 129-151, o the outcome of send_message: a UUID or None
QueryRegistryMut(o) ==
    IF o.next = "raise" THEN None
    ELSE IF o.body.text = "" THEN None
    ELSE LET data == JsonLoads(o.body.text) IN
         IF ~data.ok THEN None
         ELSE IF data.assistant_id = "" THEN None
         ELSE UUID(data.assistant_id)
QueryRegistry(o) ==
    IF o.next = "raise" THEN None
    ELSE IF o.body.text = "" THEN None
    ELSE LET data == JsonLoads(o.body.text) IN
         IF ~data.ok THEN None
         ELSE IF data.assistant_id = "" THEN None
         ELSE IF IsUuidString(data.assistant_id) THEN UUID(data.assistant_id)
         ELSE None

(***************************************************************************)
(* discovery.resolve_assistant_id.                                         *)
(***************************************************************************)
\* cache_key = (agent_key, agent_config.host, agent_config.port)
CacheKeyMut(c) == <<c.agent_key, c.registry_config.host, c.registry_config.port>>
CacheKey(c) == <<c.agent_key, c.agent_config.host, c.agent_config.port>>

NotResolvedError(k) == Exc("ValueError", 0, "Could not resolve assistant_id for agent: " \o k)

MisconfiguredError ==
    Exc("ValueError", 0, "Registry is enabled for agent but not configured globally.")

\* lines 43-54: the strategy that applies before any I/O
FirstStrategyMut(c, cache) ==
    IF c.agent_config.assistant_id # None THEN "static"
    ELSE IF CacheKey(c) \in DOMAIN cache THEN "cache"
    ELSE "search"
FirstStrategy(c, cache) ==
    IF CacheKey(c) \in DOMAIN cache THEN "cache"
    ELSE IF c.agent_config.assistant_id # None THEN "static"
    ELSE "search"

\* lines 65-67: what follows a direct discovery that gave no id
RegistryDecisionSkipMut(c) ==
    IF c.agent_config.registry_enabled /\ c.registry_config # NoRegistry
    THEN "query"
    ELSE "skip"
RegistryDecisionAlwaysMut(c) ==
    IF c.registry_config # NoRegistry THEN "query"
    ELSE IF c.agent_config.registry_enabled THEN "misconfigured"
    ELSE "skip"
RegistryDecision(c) ==
    IF c.agent_config.registry_enabled
    THEN IF c.registry_config = NoRegistry THEN "misconfigured" ELSE "query"
    ELSE "skip"

\* the cache after a store of lines 49, 59, 74
StoreMut(cache, c, id) == cache
Store(cache, c, id) == Put(cache, CacheKey(c), id)

\* the cache after a raise of resolve_assistant_id
FailStoreMut(cache, c) == Put(cache, CacheKey(c), None)
FailStore(cache, c) == cache

\* a return statement of resolve_assistant_id that first stores the id
StoreAndReturn(p, c, id, via) ==
    /\ assistant_id_cache' = Store(assistant_id_cache, c, id)
    /\ last_resolved' =
           Put(last_resolved, <<c.agent_key, c.agent_config.host, c.agent_config.port>>, id)
    /\ pc' = [pc EXCEPT ![p] = "done"]
    /\ out' = [out EXCEPT ![p] = Returned(id, NoBody, via)]

\* a raise statement of resolve_assistant_id
Fail(p, c, e) ==
    /\ pc' = [pc EXCEPT ![p] = "done"]
    /\ out' = [out EXCEPT ![p] = Raised(e)]
    /\ assistant_id_cache' = FailStore(assistant_id_cache, c)
    /\ last_resolved' = last_resolved

\* lines 42-56: cache hit, static id, or the search POST is issued
ResolveBegin(p, k, ac, rc, attempts) ==
    LET c == [op |-> "resolve", agent_key |-> k, agent_config |-> ac,
              registry_config |-> rc, attempts |-> attempts]
        first == FirstStrategy(c, assistant_id_cache) IN
    /\ pc[p] = "idle"
    /\ call' = [call EXCEPT ![p] = c]
    /\ IF first = "cache"
       THEN /\ pc' = [pc EXCEPT ![p] = "done"]
            /\ out' = [out EXCEPT ![p] =
                   Returned(assistant_id_cache[CacheKey(c)], NoBody, "cache")]
            /\ searches' = searches
            /\ UNCHANGED <<assistant_id_cache, last_resolved>>
       ELSE IF first = "static"
            THEN /\ StoreAndReturn(p, c, ac.assistant_id, "static")
                 /\ searches' = searches
            ELSE /\ pc' = [pc EXCEPT ![p] = "search"]
                 /\ searches' = [searches EXCEPT ![p] = 1]
                 /\ UNCHANGED <<assistant_id_cache, last_resolved, out>>
    /\ UNCHANGED <<frame, hist, fnVars, fwdVars, config, loadVars>>

\* a call with any of the modelled arguments
StartResolve(p) ==
    /\ \E k \in AgentKeys, rc \in RegistryConfigs, attempts \in 0..MaxRegAttempts :
         \E ac \in AgentConfigs(k) : ResolveBegin(p, k, ac, rc, attempts)
    /\ run' = run

\* a call for agent "gitlab" configured without static id and without registry
StartResolveDirect(p) ==
    /\ ResolveBegin(p, "gitlab",
                    [host |-> "127.0.0.1", port |-> AgentPort("gitlab"),
                     name |-> AgentName("gitlab"), registry_enabled |-> FALSE,
                     assistant_id |-> None],
                    NoRegistry, 1)
    /\ run' = run

\* lines 72-79 from the end of _query_registry, which returned id (or None)
AfterRegistry(p, c, id) ==
    IF id # None
    THEN StoreAndReturn(p, c, id, "registry")
    ELSE Fail(p, c, NotResolvedError(c.agent_key))

\* send_message raised before any await of the registry call
RegistryRaised == [next |-> "raise", body |-> NoBody, err |-> UnexpectedError]

\* the replies that differ for _search_on_target: it does not look into a
\* JSON object
TargetSearchResponses ==
    {r \in SearchResponses : r.kind = "object" => r.records = <<>>}

\* lines 57-79: the search POST completes with resp
SearchReply(p) ==
    /\ pc[p] = "search"
    /\ \E resp \in TargetSearchResponses :
         LET c == call[p]
             r == SearchOnTarget(resp, c.agent_config.name)
             decision == RegistryDecision(c) IN
         IF r.status = "id"
         THEN /\ StoreAndReturn(p, c, r.id, "direct")
              /\ frame' = frame
         ELSE IF decision = "misconfigured"
         THEN /\ Fail(p, c, MisconfiguredError)
              /\ frame' = frame
         ELSE IF decision = "skip"
         THEN /\ Fail(p, c, NotResolvedError(c.agent_key))
              /\ frame' = frame
         ELSE IF LoopEmpty(c.attempts)
         THEN /\ AfterRegistry(p, c, QueryRegistry(RegistryRaised))
              /\ frame' = [frame EXCEPT ![p] = [NoFrame EXCEPT !.attempts = c.attempts]]
         ELSE /\ pc' = [pc EXCEPT ![p] = "post"]
              /\ frame' = [frame EXCEPT ![p] =
                     FirstPost(c.attempts,
                               SendTarget(c.registry_config.host, c.registry_config.port,
                                          c.registry_config.assistant_id))]
              /\ UNCHANGED <<assistant_id_cache, last_resolved, out>>
    /\ UNCHANGED <<call, searches, hist, fnVars, fwdVars, runVars>>

\* the awaited POST to the registry completes with resp
RegistryPostReply(p) ==
    /\ pc[p] = "post"
    /\ call[p].op = "resolve"
    /\ \E resp \in Responses :
         LET o == AttemptOutcome(frame[p], resp) IN
         /\ hist' = [hist EXCEPT ![p] = Append(@, resp)]
         /\ IF o.next = "sleep"
            THEN /\ pc' = [pc EXCEPT ![p] = "sleep"]
                 /\ frame' = [frame EXCEPT ![p] = EnterSleep(@)]
                 /\ UNCHANGED <<assistant_id_cache, last_resolved, out>>
            ELSE /\ AfterRegistry(p, call[p], QueryRegistry(o))
                 /\ frame' = frame
    /\ UNCHANGED <<call, searches, fnVars, fwdVars, runVars>>

\* the awaited backoff sleep completes: the for loop takes its next iteration,
\* or is over and line 89 raises
BackoffDone(p) ==
    /\ pc[p] = "sleep"
    /\ IF frame[p].attempt + 1 < frame[p].attempts
       THEN /\ pc' = [pc EXCEPT ![p] = "post"]
            /\ frame' = [frame EXCEPT ![p] = NextPost(@)]
            /\ UNCHANGED <<assistant_id_cache, last_resolved, out>>
       ELSE /\ frame' = frame
            /\ IF call[p].op = "resolve"
               THEN AfterRegistry(p, call[p], QueryRegistry(RegistryRaised))
               ELSE /\ pc' = [pc EXCEPT ![p] = "done"]
                    /\ out' = [out EXCEPT ![p] = Raised(UnexpectedError)]
                    /\ UNCHANGED <<assistant_id_cache, last_resolved>>
    /\ UNCHANGED <<call, searches, hist, fnVars, fwdVars, runVars>>

\* discovery.clear_cache
ClearCache ==
    /\ assistant_id_cache # EmptyMap
    /\ assistant_id_cache' = EmptyMap
    /\ last_resolved' = EmptyMap
    /\ UNCHANGED <<taskVars, fnVars, fwdVars, runVars>>

(***************************************************************************)
(* The two searches applied on their own to one reply.                     *)
(***************************************************************************)
NoArg == [resp |-> [kind |-> "request_error", records |-> <<>>], name |-> None]
NoRes == [fn |-> "none", status |-> "none", id |-> None]

RunSearchOnTarget ==
    /\ fn_res.fn = "none"
    /\ fn_arg.name # None
    /\ fn_res' = [fn |-> "search_on_target"] @@ SearchOnTarget(fn_arg.resp, fn_arg.name)
    /\ UNCHANGED <<fn_arg, assistant_id_cache, last_resolved, taskVars, fwdVars, runVars>>

RunFetchAssistantId ==
    /\ fn_res.fn = "none"
    /\ fn_res' = [fn |-> "fetch_assistant_id"] @@ FetchAssistantId(fn_arg.resp, fn_arg.name)
    /\ UNCHANGED <<fn_arg, assistant_id_cache, last_resolved, taskVars, fwdVars, runVars>>

RunDiscover ==
    /\ fn_res.fn = "none"
    /\ fn_arg.name # None
    /\ fn_res' = [fn |-> "discover"] @@ Discover(fn_arg.resp, fn_arg.name)
    /\ UNCHANGED <<fn_arg, assistant_id_cache, last_resolved, taskVars, fwdVars, runVars>>

(***************************************************************************)
(* router_app/nodes/a2a_send.py: a2a_send(state).                          *)
(***************************************************************************)
ThreadIds == {"ctx-1", "ctx-2"}

ReplyTexts == {"", "2 open MRs"}

\* the results the forwarding peers send
ForwardResults ==
    {EmptyResult} \cup {ArtifactResult(t, c) : t \in ReplyTexts, c \in ThreadIds \cup {None}}

ForwardBodies == {ReplyBody(e, r) : e \in BOOLEAN, r \in ForwardResults}

\* what one awaited message/send POST can come back with
ForwardResponses ==
    [kind : {"timeout", "network"}, status : {0}, body : {UndecodableBody}]
    \cup [kind : {"http"}, status : {404, 503}, body : {UndecodableBody}]
    \cup [kind : {"http"}, status : {200}, body : ForwardBodies \cup {UndecodableBody}]

\* the AgentInfo resolve_agent puts in the state for agent key k
AgentInfo(k) ==
    [host |-> "127.0.0.1", port |-> AgentPort(k),
     assistant_id |-> IF k = "gitlab" THEN Uuid1 ELSE Uuid2]

\* line 37: thread_key
ThreadKey(agent_info) == <<agent_info.host, agent_info.port, agent_info.assistant_id>>

\* dict.get(k)
Get(m, k) == IF k \in DOMAIN m THEN m[k] ELSE None

\* lines 58-59: the store after a reply that parsed, new_thread_id its contextId
StoreThreadMut(store, key, new_thread_id) == Put(store, key, new_thread_id)
StoreThread(store, key, new_thread_id) ==
    IF Truthy(new_thread_id) THEN Put(store, key, new_thread_id) ELSE store

\* the store after a reply that did not parse or a call that raised
FailThreadMut(store, key, body) ==
    IF body.decodable /\ Truthy(body.result.contextId)
    THEN Put(store, key, body.result.contextId)
    ELSE store
FailThread(store, key, body) == store

\* lines 62 and 67: the state a2a_send returns
SendOk(text, thread_id) ==
    [status |-> "ok", response_text |-> text, thread_id |-> thread_id, err |-> NoError]
SendError(e) == [status |-> "error", response_text |-> None, thread_id |-> None, err |-> e]

\* the history of thread ids received, after a forward for agent key k ended in r
Received(h, k, r) ==
    IF r.status = "ok" /\ Truthy(r.thread_id) THEN Put(h, k, r.thread_id) ELSE h

\* what the reply with this body carried
ReplySeen(body) ==
    IF body.decodable
    THEN [has_error |-> body.has_error, contextId |-> body.result.contextId]
    ELSE NoReply

\* lines 64-69 after exception e: the error state, then the awaited close()
A2aSendFail(p, e, body) ==
    /\ a2a' = [a2a EXCEPT ![p].res = SendError(e), ![p].reply = ReplySeen(body)]
    /\ thread_context' = FailThread(thread_context, a2a[p].thread_key, body)
    /\ pc' = [pc EXCEPT ![p] = "fwd_close"]
    /\ last_thread' = last_thread

\* lines 29-48: the early return, or the store is read and the POST issued
A2aSendBegin(p, k, agent_info, attempts, bypass) ==
    /\ impl = "router_app"
    /\ pc[p] = "idle"
    /\ LET thread_key == ThreadKey(agent_info)
             thread_id == Get(thread_context, thread_key)
             locals == [target_agent_key |-> k, thread_key |-> thread_key,
                        thread_id |-> thread_id, payload |-> ClientPayload(thread_id),
                        res |-> NoFwdOut, reply |-> NoReply] IN
         /\ call' = [call EXCEPT ![p] =
                [NoCall EXCEPT !.op = "a2a_send", !.agent_key = k, !.attempts = attempts]]
         /\ IF bypass
            THEN /\ pc' = [pc EXCEPT ![p] = "done"]
                 /\ a2a' = [a2a EXCEPT ![p] = [NoA2a EXCEPT !.res.status = "bypassed"]]
                 /\ UNCHANGED <<frame, thread_context>>
            ELSE IF LoopEmpty(attempts)
            THEN /\ pc' = [pc EXCEPT ![p] = "fwd_close"]
                 /\ a2a' = [a2a EXCEPT ![p] = [locals EXCEPT !.res = SendError(UnexpectedError)]]
                 /\ frame' = [frame EXCEPT ![p] = [NoFrame EXCEPT !.attempts = attempts]]
                 /\ thread_context' = FailThread(thread_context, thread_key, UndecodableBody)
            ELSE /\ pc' = [pc EXCEPT ![p] = "fwd_post"]
                 /\ a2a' = [a2a EXCEPT ![p] = locals]
                 /\ frame' = [frame EXCEPT ![p] = FirstPost(attempts, thread_key)]
                 /\ UNCHANGED thread_context
    /\ UNCHANGED <<assistant_id_cache, last_resolved, searches, out, hist, fnVars,
                   impl, graph_state, turn, last_thread, config, loadVars>>

\* a call with any of the modelled states and retry settings
A2aSendStart(p) ==
    /\ \E k \in AgentKeys, attempts \in 0..MaxRegAttempts, bypass \in BOOLEAN :
         A2aSendBegin(p, k, AgentInfo(k), attempts, bypass)
    /\ run' = run

\* a call for any agent with retries.attempts = 1
A2aSendStartOnce(p) ==
    /\ \E k \in AgentKeys : A2aSendBegin(p, k, AgentInfo(k), 1, FALSE)
    /\ run' = run

\* lines 42-69: the awaited POST of send_message completes with resp
A2aSendPostReply(p) ==
    /\ pc[p] = "fwd_post"
    /\ \E resp \in ForwardResponses :
         LET o == AttemptOutcome(frame[p], resp)
             n == A2aNormalize(resp.body) IN
         IF o.next = "sleep"
         THEN /\ pc' = [pc EXCEPT ![p] = "fwd_sleep"]
              /\ frame' = [frame EXCEPT ![p] = EnterSleep(@)]
              /\ UNCHANGED <<a2a, thread_context, last_thread>>
         ELSE /\ frame' = frame
              /\ IF o.next = "raise" THEN A2aSendFail(p, o.err, resp.body)
                 ELSE IF n.status = "raise" THEN A2aSendFail(p, n.err, resp.body)
                 ELSE /\ thread_context' =
                            StoreThread(thread_context, a2a[p].thread_key, n.thread_id)
                      /\ a2a' = [a2a EXCEPT ![p].res = SendOk(n.text, n.thread_id),
                                             ![p].reply = ReplySeen(resp.body)]
                      /\ last_thread' =
                            Received(last_thread, a2a[p].target_agent_key, n)
                      /\ pc' = [pc EXCEPT ![p] = "fwd_close"]
    /\ UNCHANGED <<assistant_id_cache, last_resolved, call, searches, out, hist, fnVars,
                   impl, graph_state, turn, runVars>>

\* the awaited backoff sleep of send_message completes
A2aSendBackoffDone(p) ==
    /\ pc[p] = "fwd_sleep"
    /\ IF frame[p].attempt + 1 < frame[p].attempts
       THEN /\ pc' = [pc EXCEPT ![p] = "fwd_post"]
            /\ frame' = [frame EXCEPT ![p] = NextPost(@)]
            /\ UNCHANGED <<a2a, thread_context, last_thread>>
       ELSE /\ frame' = frame
            /\ A2aSendFail(p, UnexpectedError, UndecodableBody)
    /\ UNCHANGED <<assistant_id_cache, last_resolved, call, searches, out, hist, fnVars,
                   impl, graph_state, turn, runVars>>

\* line 69: the awaited close() completes and a2a_send returns
A2aSendClosed(p) ==
    /\ pc[p] = "fwd_close"
    /\ pc' = [pc EXCEPT ![p] = "done"]
    /\ UNCHANGED <<assistant_id_cache, last_resolved, call, frame, searches, out, hist,
                   fnVars, fwdVars, runVars>>

(***************************************************************************)
(* The forward nodes of the LangGraph packages.  Each makes one POST with  *)
(* no retry; the graph merges the dict a node returns into the state of    *)
(* the thread, and a node that raises ends the run with no update.         *)
(***************************************************************************)
Packages == {"router_app", "agentic_router", "src.agentic_router", "src.nodes"}

NoGraphState ==
    [agent_key |-> None, thread_id |-> None, thread_map |-> EmptyMap,
     active_thread_id |-> None]

\* no : the parity of the number of turns run; reply (history): what the
\* reply of the turn carried
NoTurn == [no |-> 0, agent_key |-> None, payload |-> NoThreadPayload, reply |-> NoReply,
           out |-> [status |-> "none", text |-> None, thread_id |-> None, err |-> NoError]]

ConnectError == Exc("RuntimeError", 0, "Could not connect to agent")
NonJsonError == Exc("ValueError", 0, "Agent returned non-JSON response")

\* the POST, raise_for_status() and response.json() of a forward node
SinglePost(resp) ==
    IF resp.kind \in {"timeout", "network"} THEN ConnectError
    ELSE IF ~IsSuccess(resp) THEN Exc("HTTPStatusError", resp.status, "")
    ELSE IF ~resp.body.decodable THEN NonJsonError
    ELSE NoError

\* the classify nodes: agentic_router returns the key; src/agentic_router
\* (lines 32-36) and src/nodes (lines 35-39) also look up the key's thread id
Classify(package, state, k) ==
    IF package = "agentic_router"
    THEN [state EXCEPT !.agent_key = k]
    ELSE [state EXCEPT !.agent_key = k, !.active_thread_id = Get(state.thread_map, k)]

\* what a forward node did: the request it sent, how it ended, the state after
Forwarded(payload, n, state) == [payload |-> payload, out |-> n, state |-> state]

\* agentic_router/nodes/forward.py lines 47-96
ArForward(state, resp) ==
    LET n == IF SinglePost(resp) # NoError THEN NotNormalized(SinglePost(resp))
             ELSE ArNormalize(resp.body) IN
    Forwarded(ArPayload(state.thread_id), n,
              IF n.status = "ok" THEN [state EXCEPT !.thread_id = n.thread_id] ELSE state)

\* src/agentic_router/nodes/forward.py lines 204-208: the thread map after a reply
SarThreadMap(thread_map, agent_key, thread_id, new_thread_id) ==
    IF Truthy(new_thread_id) THEN Put(thread_map, agent_key, new_thread_id)
    ELSE IF Truthy(thread_id) /\ agent_key \notin DOMAIN thread_map
         THEN Put(thread_map, agent_key, thread_id)
         ELSE thread_map

\* src/agentic_router/nodes/forward.py lines 150-221
SarForward(state, resp) ==
    LET thread_id == state.active_thread_id
        n == IF SinglePost(resp) # NoError THEN NotNormalized(SinglePost(resp))
             ELSE SarNormalize(resp.body) IN
    Forwarded(SarPayload(thread_id), n,
              IF n.status = "ok"
              THEN [state EXCEPT
                      !.thread_map = SarThreadMap(@, state.agent_key, thread_id, n.thread_id),
                      !.active_thread_id = IF Truthy(n.thread_id) THEN n.thread_id ELSE @]
              ELSE state)

\* src/nodes/forward.py lines 119-180
SnForward(state, resp, generated) ==
    LET thread_id == Get(state.thread_map, state.agent_key)
        n == IF SinglePost(resp) # NoError THEN NotNormalized(SinglePost(resp))
             ELSE ExtractResponseText(resp.body) IN
    Forwarded(SnPayload(thread_id, generated), n,
              IF n.status = "ok"
              THEN [state EXCEPT
                      !.thread_map = IF Truthy(n.thread_id)
                                     THEN Put(@, state.agent_key, n.thread_id) ELSE @,
                      !.active_thread_id = n.thread_id]
              ELSE state)

\* one run of the graph of a package on the thread's state: classify picks
\* agent key k, discover locates the agent, forward gets reply resp
GraphTurn ==
    /\ impl # "router_app"
    /\ \E k \in AgentKeys, resp \in ForwardResponses, generated \in GeneratedThreadIds :
         LET classified == Classify(impl, graph_state, k)
             f == CASE impl = "agentic_router" -> ArForward(classified, resp)
                    [] impl = "src.agentic_router" -> SarForward(classified, resp)
                    [] OTHER -> SnForward(classified, resp, generated) IN
         /\ graph_state' = f.state
         /\ turn' = [no |-> 1 - turn.no, agent_key |-> k, payload |-> f.payload,
                     reply |-> IF resp.kind = "http" THEN ReplySeen(resp.body) ELSE NoReply,
                     out |-> f.out]
         /\ last_thread' = Received(last_thread, k, f.out)
    /\ UNCHANGED <<assistant_id_cache, last_resolved, taskVars, fnVars, impl,
                   thread_context, a2a, runVars>>

(***************************************************************************)
(* The reply parsers applied on their own to one reply body.               *)
(***************************************************************************)
\* the values of result.contextId, result.threadId, result.thread.threadId
\* and result.context.threadId: absent, empty, blank, or an id of its own
ThreadValues(id) == {None, "", "  ", id}

\* the parts a peer puts in a parts array
Parts ==
    {KindPart("text", t) : t \in {"", "  ", "part one"}}
    \cup {TypePart("text", t) : t \in {"", "  ", "part two"}}
    \cup {KindPart("data", "raw data"), ContentPart("part content")}

\* results that differ in their thread ids, with and without a text
ThreadInputs ==
    {[ArtifactResult(t, c1) EXCEPT !.threadId = c2, !.thread_threadId = c3,
                                   !.context_threadId = c4] :
        t \in {"", "2 open MRs"},
        c1 \in ThreadValues("ctx-1"), c2 \in ThreadValues("ctx-2"),
        c3 \in ThreadValues("ctx-3"), c4 \in ThreadValues("ctx-4")}

\* results that differ in the shapes they have: each shape absent, present
\* with a blank text, or present with a text of its own
ShapeInputs ==
    {[EmptyResult EXCEPT
        !.artifacts = IF p = None /\ a = None THEN <<>>
                      ELSE <<ArtifactOf(IF p = None THEN <<>> ELSE <<KindPart("text", p)>>, a)>>,
        !.messages = IF m = None THEN <<>> ELSE <<MessageOf("assistant", m, <<>>)>>,
        !.history = IF h = None THEN <<>>
                    ELSE <<HistoryOf("user", <<KindPart("text", "the question")>>),
                           HistoryOf("agent", <<KindPart("text", h)>>)>>,
        !.output_text = f,
        !.choices_content = c] :
        p \in {None, "  ", "from parts"}, a \in {None, "  ", "from artifact"},
        m \in {None, "  ", "from messages"}, h \in {None, "  ", "from history"},
        f \in {None, "  ", "from output_text"}, c \in {None, "  ", "from choices"}}

\* results that differ in the parts array of their first artifact
PartsInputs ==
    {[EmptyResult EXCEPT !.artifacts = <<ArtifactOf(parts, None)>>, !.contextId = "ctx-1"] :
        parts \in SeqsUpTo(Parts, MaxParts)}

\* the entries of a messages array: a role, a content that is absent, blank
\* or a text, and a parts array
Messages ==
    {MessageOf(role, content, parts) :
        role \in {"user", "assistant", "ai"},
        content \in {None, "  ", "one", "two"},
        parts \in {<<>>, <<KindPart("text", "from parts")>>, <<KindPart("data", "raw data")>>}}

\* results that have the messages shape only
MessagesInputs ==
    {[EmptyResult EXCEPT !.messages = msgs] :
        msgs \in SeqsUpTo(Messages, MaxMessages) \ {<<>>}}

NormInputs ==
    {ReplyBody(FALSE, r) :
        r \in ThreadInputs \cup ShapeInputs \cup PartsInputs \cup MessagesInputs}
    \cup {ReplyBody(TRUE, r) : r \in {EmptyResult, ArtifactResult("2 open MRs", "ctx-1")}}

NoNormRes == [fn |-> "none"] @@ NotNormalized(NoError)

\* src/agentic_router: _from_parts on the first artifact's parts
RunFromParts ==
    /\ fn_res.fn = "none"
    /\ fn_arg.result.artifacts # <<>>
    /\ fn_res' = [fn |-> "from_parts"]
                 @@ Normalized(FromParts(fn_arg.result.artifacts[1].parts), None)
    /\ UNCHANGED <<fn_arg, assistant_id_cache, last_resolved, taskVars, fwdVars, runVars>>

\* src/agentic_router: forward's parsing of the decoded reply
RunSarNormalize ==
    /\ fn_res.fn = "none"
    /\ fn_res' = [fn |-> "extract_text_and_thread"] @@ SarNormalize(fn_arg)
    /\ UNCHANGED <<fn_arg, assistant_id_cache, last_resolved, taskVars, fwdVars, runVars>>

\* src/nodes: extract_response_text
RunExtractResponseText ==
    /\ fn_res.fn = "none"
    /\ fn_res' = [fn |-> "extract_response_text"] @@ ExtractResponseText(fn_arg)
    /\ UNCHANGED <<fn_arg, assistant_id_cache, last_resolved, taskVars, fwdVars, runVars>>

\* router_app: a2a_send's parsing of the decoded reply
RunA2aNormalize ==
    /\ fn_res.fn = "none"
    /\ fn_res' = [fn |-> "a2a_send"] @@ A2aNormalize(fn_arg)
    /\ UNCHANGED <<fn_arg, assistant_id_cache, last_resolved, taskVars, fwdVars, runVars>>

(***************************************************************************)
(* build_service_url (src/agentic_router/nodes/utils.py).  A string is the *)
(* sequence of its characters; the str methods the function calls are      *)
(* operators on such sequences.                                            *)
(***************************************************************************)
Whitespace == {" "}

Digits == <<"0", "1", "2", "3", "4", "5", "6", "7", "8", "9">>

Letters == {"b", "e", "h", "p", "s", "t", "x", "H", "P", "S", "T"}

ToLower == ("H" :> "h") @@ ("P" :> "p") @@ ("S" :> "s") @@ ("T" :> "t")

IsDigit(c) == \E i \in 1..10 : Digits[i] = c

DigitValue(c) == (CHOOSE i \in 1..10 : Digits[i] = c) - 1

\* str.lower()
Lower(s) == [i \in 1..Len(s) |-> IF s[i] \in DOMAIN ToLower THEN ToLower[s[i]] ELSE s[i]]

\* s[:n] and s[n:]
Take(s, n) == SubSeq(s, 1, n)

Drop(s, n) == SubSeq(s, n + 1, Len(s))

\* str.startswith, str.endswith
StartsWith(s, prefix) == Len(s) >= Len(prefix) /\ Take(s, Len(prefix)) = prefix

EndsWith(s, suffix) == Len(s) >= Len(suffix) /\ Drop(s, Len(s) - Len(suffix)) = suffix

Occurrences(s, sub) ==
    {i \in 1..(Len(s) - Len(sub) + 1) : SubSeq(s, i, i + Len(sub) - 1) = sub}

\* str.find and str.rfind, counting positions from 1; 0 when sub does not occur
Find(s, sub) ==
    LET at == Occurrences(s, sub) IN
    IF at = {} THEN 0 ELSE CHOOSE i \in at : \A j \in at : i <= j

RFind(s, sub) ==
    LET at == Occurrences(s, sub) IN
    IF at = {} THEN 0 ELSE CHOOSE i \in at : \A j \in at : i >= j

\* sub in s
Contains(s, sub) == Occurrences(s, sub) # {}

\* s.split(sep, 1)[0] and s.split(sep, 1)[1], for a sep that occurs in s
Before(s, sep) == Take(s, Find(s, sep) - 1)

After(s, sep) == Drop(s, Find(s, sep) + Len(sep) - 1)

\* s.partition(sep)[0] and s.partition(sep)[2]; s.rpartition(sep)[2]
PartitionHead(s, sep) == IF Contains(s, sep) THEN Before(s, sep) ELSE s

PartitionTail(s, sep) == IF Contains(s, sep) THEN After(s, sep) ELSE <<>>

RPartitionTail(s, sep) == IF Contains(s, sep) THEN Drop(s, RFind(s, sep) + Len(sep) - 1) ELSE s

\* str.lstrip(chars), str.rstrip(chars), str.strip(chars)
RECURSIVE LStrip(_, _)
LStrip(s, chars) == IF s # <<>> /\ s[1] \in chars THEN LStrip(Tail(s), chars) ELSE s

RECURSIVE RStrip(_, _)
RStrip(s, chars) ==
    IF s # <<>> /\ s[Len(s)] \in chars THEN RStrip(Take(s, Len(s) - 1), chars) ELSE s

Strip(s, chars) == RStrip(LStrip(s, chars), chars)

\* s.split(sep): the pieces between the occurrences of sep
RECURSIVE Split(_, _)
Split(s, sep) ==
    IF Contains(s, sep) THEN <<Before(s, sep)>> \o Split(After(s, sep), sep) ELSE <<s>>

\* sep.join(pieces)
RECURSIVE Join(_, _)
Join(pieces, sep) ==
    IF pieces = <<>> THEN <<>>
    ELSE IF Len(pieces) = 1 THEN pieces[1]
    ELSE pieces[1] \o sep \o Join(Tail(pieces), sep)

\* str(port) and int(digits)
RECURSIVE Str(_)
Str(n) == IF n < 10 THEN <<Digits[n + 1]>> ELSE Str(n \div 10) \o <<Digits[(n % 10) + 1]>>

RECURSIVE ToInt(_)
ToInt(s) ==
    IF s = <<>> THEN 0 ELSE 10 * ToInt(Take(s, Len(s) - 1)) + DigitValue(s[Len(s)])

\* the characters urlsplit allows in a scheme, among the modelled ones
SchemeChars == Letters \cup {Digits[i] : i \in 1..10}

\* the bracketed hosts that ipaddress.ip_address accepts as IPv6, among the
\* modelled ones
Ipv6Literals == {<<":", ":", "1">>}

UrlError(msg) == [status |-> "raise", err |-> Exc("ValueError", 0, msg),
                  scheme |-> <<>>, netloc |-> <<>>, path |-> <<>>]

\* urllib.parse.urlparse(url) for a url without "?", "#" and ";": the scheme
\* is the text before the first colon when it is a letter followed by scheme
\* characters; the netloc follows "//" up to the next slash; brackets in the
\* netloc must pair and hold an IPv6 address
Urlparse(url) ==
    LET i == Find(url, <<":">>)
        has_scheme == /\ i > 1
                      /\ url[1] \in Letters
                      /\ \A j \in 1..(i - 1) : url[j] \in SchemeChars
        scheme == IF has_scheme THEN Lower(Take(url, i - 1)) ELSE <<>>
        rest == IF has_scheme THEN Drop(url, i) ELSE url
        has_netloc == StartsWith(rest, <<"/", "/">>)
        netloc == IF has_netloc THEN PartitionHead(Drop(rest, 2), <<"/">>) ELSE <<>>
        path == IF has_netloc THEN Drop(rest, 2 + Len(netloc)) ELSE rest
        bracketed_host == PartitionHead(PartitionTail(netloc, <<"[">>), <<"]">>)
    IN  IF Contains(netloc, <<"[">>) # Contains(netloc, <<"]">>)
        THEN UrlError("Invalid IPv6 URL")
        ELSE IF Contains(netloc, <<"[">>) /\ bracketed_host \notin Ipv6Literals
        THEN UrlError("does not appear to be an IPv4 or IPv6 address")
        ELSE [status |-> "ok", err |-> NoError,
              scheme |-> scheme, netloc |-> netloc, path |-> path]

NoPort == [status |-> "none", port |-> 0]

\* ParseResult.port: the digits after the colon that follows the host (after
\* the closing bracket of a bracketed host), None when there are none, and a
\* ValueError when that text is not a number of 0..65535
Port(netloc) ==
    LET hostinfo == RPartitionTail(netloc, <<"@">>)
        port == IF Contains(hostinfo, <<"[">>)
                THEN PartitionTail(PartitionTail(PartitionTail(hostinfo, <<"[">>),
                                                 <<"]">>), <<":">>)
                ELSE PartitionTail(hostinfo, <<":">>)
    IN  IF port = <<>> THEN NoPort
        ELSE IF \A j \in 1..Len(port) : IsDigit(port[j])
        THEN IF ToInt(port) <= 65535
             THEN [status |-> "int", port |-> ToInt(port)]
             ELSE [status |-> "raise", port |-> 0]
        ELSE [status |-> "raise", port |-> 0]

\* urllib.parse.urlunparse((scheme, netloc, path, "", "", ""))
Urlunparse(scheme, netloc, path) ==
    LET rooted == IF path # <<>> /\ path[1] # "/" THEN <<"/">> \o path ELSE path
        url == IF netloc # <<>> THEN <<"/", "/">> \o netloc \o rooted ELSE path
    IN  IF scheme # <<>> THEN scheme \o <<":">> \o url ELSE url

Http == <<"h", "t", "t", "p">>

Https == <<"h", "t", "t", "p", "s">>

ColonSlashSlash == <<":", "/", "/">>

\* lines 67-81: the scheme prefix in its canonical spelling
RepairSchemeMut(host) == host
RepairScheme(host) ==
    LET lower == Lower(host) IN
    IF StartsWith(lower, Http \o <<":">>) /\ ~StartsWith(lower, Http \o ColonSlashSlash)
    THEN Http \o ColonSlashSlash \o LStrip(After(host, <<":">>), {"/"})
    ELSE IF /\ StartsWith(lower, Https \o <<":">>)
            /\ ~StartsWith(lower, Https \o ColonSlashSlash)
    THEN Https \o ColonSlashSlash \o LStrip(After(host, <<":">>), {"/"})
    ELSE IF StartsWith(lower, Http \o <<"/", "/">>)
    THEN Http \o ColonSlashSlash \o LStrip(Drop(host, 6), {"/"})
    ELSE IF StartsWith(lower, Https \o <<"/", "/">>)
    THEN Https \o ColonSlashSlash \o LStrip(Drop(host, 7), {"/"})
    ELSE IF \/ StartsWith(lower, Http \o ColonSlashSlash)
            \/ StartsWith(lower, Https \o ColonSlashSlash)
    THEN Lower(Before(host, ColonSlashSlash)) \o ColonSlashSlash
         \o After(host, ColonSlashSlash)
    ELSE host

\* [segment for segment in path.strip("/").split("/") if segment]
Segments(path) == SelectSeq(Split(Strip(path, {"/"}), <<"/">>), LAMBDA segment : segment # <<>>)

UrlRaise(e) == [status |-> "raise", url |-> <<>>, err |-> e]

HostEmpty == Exc("ValueError", 0, "Host cannot be empty.")

HostnameRequired ==
    Exc("ValueError", 0, "Host must include a hostname when a protocol is provided.")

PortError == Exc("ValueError", 0, "Port could not be cast to integer value")

\* lines 92-98: the netloc, with the configured port when it has none
WithPort(netloc, port) ==
    LET tail == Split(netloc, <<"]">>)[Len(Split(netloc, <<"]">>))] IN
    IF Port(netloc).status = "none" /\ ~Contains(tail, <<":">>)
    THEN netloc \o <<":">> \o Str(port)
    ELSE netloc

\* lines 100-108: the path made of the base path and the endpoint
ComposePathMut(base_path, endpoint) ==
    IF Segments(Strip(endpoint, Whitespace)) = <<>> THEN base_path
    ELSE <<"/">> \o Join(Segments(Strip(endpoint, Whitespace)), <<"/">>)
ComposePath(base_path, endpoint) ==
    LET endpoint_clean == Strip(endpoint, Whitespace)
        segments == Segments(base_path) \o Segments(endpoint_clean)
    IN  IF segments # <<>> THEN <<"/">> \o Join(segments, <<"/">>)
        ELSE IF StartsWith(endpoint_clean, <<"/">>) \/ EndsWith(base_path, <<"/">>)
        THEN <<"/">>
        ELSE <<>>

\* build_service_url(host, port, endpoint)
BuildServiceUrl(host, port, endpoint) ==
    IF host = <<>> THEN UrlRaise(HostEmpty)
    ELSE
    LET repaired == RepairScheme(Strip(host, Whitespace))
        explicit == Contains(repaired, ColonSlashSlash)
        parsed == IF explicit THEN Urlparse(repaired)
                  ELSE Urlparse(Http \o ColonSlashSlash \o repaired)
    IN  IF parsed.status = "raise" THEN UrlRaise(parsed.err)
        ELSE IF parsed.netloc = <<>>
        THEN UrlRaise(IF explicit THEN HostnameRequired ELSE HostEmpty)
        ELSE IF Port(parsed.netloc).status = "raise" THEN UrlRaise(PortError)
        ELSE [status |-> "ok", err |-> NoError,
              url |-> Urlunparse(IF parsed.scheme # <<>> THEN parsed.scheme ELSE Http,
                                 WithPort(parsed.netloc, port),
                                 ComposePath(parsed.path, endpoint))]

\* the concatenation of a sequence of strings
RECURSIVE Concat(_)
Concat(tokens) == IF tokens = <<>> THEN <<>> ELSE tokens[1] \o Concat(Tail(tokens))

\* the spellings of a scheme prefix
SchemeSpellings ==
    { <<>>,
      Http \o ColonSlashSlash, Https \o ColonSlashSlash,
      <<"H", "T", "T", "P", "S">> \o ColonSlashSlash,
      Http \o <<":">>, Https \o <<":", "/">>,
      Http \o <<"/", "/">>, Https \o <<"/", "/">> }

\* what a host is written with: a name, a colon, a slash, a digit, a blank,
\* the separator of user information and a bracketed IPv6 literal
HostTokens ==
    { <<"e">>, <<":">>, <<"/">>, <<"7">>, <<" ">>, <<"@">>, <<"[", ":", ":", "1", "]">> }

Hosts == {spelling \o Concat(tokens) :
            spelling \in SchemeSpellings, tokens \in SeqsUpTo(HostTokens, MaxHostLen)}

\* hosts with a base path, and the endpoints joined to them
Authorities ==
    { <<"e">>, <<"e", ":", "7">>, Https \o ColonSlashSlash \o <<"e">>,
      <<"[", ":", ":", "1", "]">> }

BasePaths == {Concat(tokens) : tokens \in SeqsUpTo({<<"/">>, <<"b">>}, MaxPathLen)}

Endpoints == {Concat(tokens) : tokens \in SeqsUpTo({<<"/">>, <<"x">>, <<" ">>}, MaxPathLen)}

Ports == {8080}

UrlInputs ==
    [host : Hosts, port : Ports, endpoint : {<<"/", "x">>}]
    \cup [host : {a \o <<"/">> \o p : a \in Authorities, p \in BasePaths} \cup Authorities,
          port : Ports, endpoint : Endpoints]

NoUrlRes == [fn |-> "none"] @@ UrlRaise(NoError)

\* one call of build_service_url on its own
RunBuildServiceUrl ==
    /\ fn_res.fn = "none"
    /\ fn_res' = [fn |-> "build_service_url"]
                 @@ BuildServiceUrl(fn_arg.host, fn_arg.port, fn_arg.endpoint)
    /\ UNCHANGED <<fn_arg, assistant_id_cache, last_resolved, taskVars, fwdVars, runVars>>

(***************************************************************************)
(* The router_app graph (router_app/graph.py): classify -> resolve_agent   *)
(* -> a2a_send -> format_output, with should_continue on the first two     *)
(* edges.  A task runs the graph on a state holding input_text; it can be  *)
(* cancelled while it awaits.                                              *)
(***************************************************************************)
\* classify.KEYWORD_MAP, in the order of the dict
KeywordMap ==
    << [agent_key |-> "gitlab", keywords |-> {"gitlab", "merge request", "pipeline", "mr"}],
       [agent_key |-> "jira", keywords |-> {"jira", "issue", "ticket", "sprint"}] >>

\* the input texts of the runs, each the sequence of its phrases
InputTexts == { <<"ticket", "mr">>, <<"sprint">>, <<"hello">> }

ClassifyError == "Could not classify input to any known agent."

\* classify.classify_input(state)
ClassifyInputMut(cfg, state) ==
    LET matching == {i \in 1..Len(KeywordMap) :
                       \E j \in 1..Len(state.input_text) :
                          state.input_text[j] \in KeywordMap[i].keywords}
    IN  IF matching # {}
        THEN [state EXCEPT !.target_agent_key =
                 KeywordMap[CHOOSE i \in matching : \A j \in matching : i <= j].agent_key]
        ELSE [state EXCEPT !.error = ClassifyError]
ClassifyInput(cfg, state) ==
    LET matching == {i \in 1..Len(KeywordMap) :
                       \E j \in 1..Len(state.input_text) :
                          state.input_text[j] \in KeywordMap[i].keywords}
        keyword_key == IF cfg.mode = "keywords" /\ matching # {}
                       THEN KeywordMap[CHOOSE i \in matching : \A j \in matching : i <= j].agent_key
                       ELSE None
    IN  IF Truthy(keyword_key) THEN [state EXCEPT !.target_agent_key = keyword_key]
        ELSE IF Truthy(cfg.default_agent)
        THEN [state EXCEPT !.target_agent_key = cfg.default_agent]
        ELSE [state EXCEPT !.error = ClassifyError]

\* graph.should_continue(state)
ShouldContinueMut(state) == "continue"
ShouldContinue(state) == IF Truthy(state.error) THEN "end" ELSE "continue"

\* the conditional edges of lines 36-51 and the edges of lines 54-55
NextNodeMut(node, state) ==
    CASE node = "classify" ->
           IF ShouldContinue(state) = "continue" THEN "resolve_agent" ELSE "format_output"
      [] node = "resolve_agent" ->
           IF ShouldContinue(state) = "continue" THEN "a2a_send" ELSE "format_output"
      [] node = "a2a_send" ->
           IF ShouldContinue(state) = "continue" THEN "a2a_send" ELSE "format_output"
      [] OTHER -> "end"
NextNode(node, state) ==
    CASE node = "classify" ->
           IF ShouldContinue(state) = "continue" THEN "resolve_agent" ELSE "format_output"
      [] node = "resolve_agent" ->
           IF ShouldContinue(state) = "continue" THEN "a2a_send" ELSE "format_output"
      [] node = "a2a_send" -> "format_output"
      [] OTHER -> "end"

\* the task has no call in flight any more
TaskIdle(p) ==
    /\ pc' = [pc EXCEPT ![p] = "idle"]
    /\ call' = [call EXCEPT ![p] = NoCall]
    /\ frame' = [frame EXCEPT ![p] = NoFrame]
    /\ searches' = [searches EXCEPT ![p] = 0]
    /\ out' = [out EXCEPT ![p] = NoOut]
    /\ hist' = [hist EXCEPT ![p] = <<>>]
    /\ a2a' = [a2a EXCEPT ![p] = NoA2a]

\* graph.invoke on a state that holds input_text: classify runs
RunStart(p) ==
    /\ run[p].node = "none"
    /\ pc[p] = "idle"
    /\ \E text \in InputTexts :
         LET state == ClassifyInput(config, [NoState EXCEPT !.input_text = text]) IN
         run' = [run EXCEPT ![p] =
                    [NoRun EXCEPT !.state = state, !.node = NextNode("classify", state)]]
    /\ UNCHANGED <<assistant_id_cache, last_resolved, taskVars, fnVars, fwdVars,
                   config, loadVars>>

NotConfiguredError(k) == "Agent key '" \o k \o "' not found in configuration."

\* resolve_agent lines 27-47: the early returns, or resolve_assistant_id is
\* called
ResolveAgentCall(p) ==
    /\ run[p].node = "resolve_agent"
    /\ pc[p] = "idle"
    /\ LET state == run[p].state
           agent_key == state.target_agent_key
       IN  IF Truthy(state.error)
           THEN /\ run' = [run EXCEPT ![p].node = NextNode("resolve_agent", state)]
                /\ UNCHANGED <<assistant_id_cache, last_resolved, taskVars, fnVars,
                               fwdVars, config, loadVars>>
           ELSE IF ~Truthy(agent_key) \/ agent_key \notin DOMAIN config.agents
           THEN /\ run' = [run EXCEPT
                             ![p].state.error = NotConfiguredError(agent_key),
                             ![p].node = NextNode("resolve_agent",
                                                  [state EXCEPT !.error =
                                                      NotConfiguredError(agent_key)])]
                /\ UNCHANGED <<assistant_id_cache, last_resolved, taskVars, fnVars,
                               fwdVars, config, loadVars>>
           ELSE /\ ResolveBegin(p, agent_key, config.agents[agent_key], config.registry,
                                config.attempts)
                /\ run' = run

\* resolve_agent lines 49-62: resolve_assistant_id returned or raised
ResolveAgentReturn(p) ==
    /\ run[p].node = "resolve_agent"
    /\ pc[p] = "done"
    /\ LET state == IF out[p].status = "ret"
                    THEN [run[p].state EXCEPT !.agent_info =
                             [host |-> call[p].agent_config.host,
                              port |-> call[p].agent_config.port,
                              assistant_id |-> out[p].id]]
                    ELSE [run[p].state EXCEPT !.error =
                             "Failed to resolve agent '" \o call[p].agent_key \o "': "
                             \o out[p].err.msg]
       IN  run' = [run EXCEPT ![p].state = state,
                              ![p].node = NextNode("resolve_agent", state),
                              ![p].search_posts = @ + searches[p],
                              ![p].registry_sends = @ + frame[p].sends]
    /\ TaskIdle(p)
    /\ UNCHANGED <<assistant_id_cache, last_resolved, fnVars, impl, thread_context,
                   graph_state, turn, last_thread, config, loadVars>>

\* the graph invokes a2a_send on the state of the run
A2aSendCall(p) ==
    /\ run[p].node = "a2a_send"
    /\ LET state == run[p].state IN
       A2aSendBegin(p, state.target_agent_key, state.agent_info, config.attempts,
                    Truthy(state.error) \/ state.agent_info = NoAgentInfo)
    /\ run' = run

\* a2a_send returned; lines 62 and 67 on the state of the run
A2aSendReturn(p) ==
    /\ run[p].node = "a2a_send"
    /\ pc[p] = "done"
    /\ LET res == a2a[p].res
           state == CASE res.status = "ok" ->
                           [run[p].state EXCEPT !.response_text = res.response_text,
                                                !.thread_id = res.thread_id]
                      [] res.status = "error" ->
                           [run[p].state EXCEPT !.error =
                               "A2A call failed for agent '" \o run[p].state.target_agent_key
                               \o "': " \o res.err.msg]
                      [] OTHER -> run[p].state
       IN  run' = [run EXCEPT ![p].state = state,
                              ![p].node = NextNode("a2a_send", state),
                              ![p].send_calls =
                                  @ + (IF res.status = "bypassed" THEN 0 ELSE 1),
                              ![p].target_sends = @ + frame[p].sends]
    /\ TaskIdle(p)
    /\ UNCHANGED <<assistant_id_cache, last_resolved, fnVars, impl, thread_context,
                   graph_state, turn, last_thread, config, loadVars>>

\* format.format_output(state)
FormatOutputState(state) ==
    IF Truthy(state.error) THEN [state EXCEPT !.response_text = None] ELSE state

FormatOutput(p) ==
    /\ run[p].node = "format_output"
    /\ run' = [run EXCEPT ![p].state = FormatOutputState(@),
                          ![p].node = NextNode("format_output", @)]
    /\ UNCHANGED <<assistant_id_cache, last_resolved, taskVars, fnVars, fwdVars,
                   config, loadVars>>

\* the awaits of a run that are under way at pc
Awaiting == {"search", "post", "sleep", "fwd_post", "fwd_sleep", "fwd_close"}

\* task.cancel(): CancelledError is raised at the await; no except clause of
\* the run catches it
Cancel(p) ==
    /\ run[p].node \in {"resolve_agent", "a2a_send"}
    /\ pc[p] \in Awaiting
    /\ pc' = [pc EXCEPT ![p] = "cancelled"]
    /\ UNCHANGED <<assistant_id_cache, last_resolved, call, frame, searches, out, hist,
                   fnVars, fwdVars, runVars>>

\* the caller takes the final state of the run, or its CancelledError
RunTaken(p) ==
    /\ \/ run[p].node = "end"
       \/ run[p].node # "none" /\ pc[p] = "cancelled"
    /\ run' = [run EXCEPT ![p] = NoRun]
    /\ TaskIdle(p)
    /\ UNCHANGED <<assistant_id_cache, last_resolved, fnVars, impl, thread_context,
                   graph_state, turn, last_thread, config, loadVars>>

\* a2a_send.reset_thread lines 76-91: the store after reset_thread(agent_key)
ResetThreadStore(cfg, store, agent_key) ==
    IF agent_key \notin DOMAIN cfg.agents THEN store
    ELSE LET agent_config == cfg.agents[agent_key]
             thread_key_tuple ==
                 <<agent_config.host, agent_config.port, agent_config.assistant_id>>
         IN  IF Truthy(agent_config.assistant_id) /\ thread_key_tuple \in DOMAIN store
             THEN [key \in DOMAIN store \ {thread_key_tuple} |-> store[key]]
             ELSE store

\* agent keys reset_thread is called with: those of the keyword map and one
\* that no configuration holds
ResetKeys == AgentKeys \cup {"wiki"}

ResetThread ==
    /\ \E agent_key \in ResetKeys :
         /\ thread_context' = ResetThreadStore(config, thread_context, agent_key)
    /\ UNCHANGED <<assistant_id_cache, last_resolved, taskVars, fnVars, impl, a2a,
                   graph_state, turn, last_thread, config, run, loadVars>>

\* agents_config.yaml: "gitlab" with a static id, or discovered with or
\* without the registry; "jira" absent, on its own server, or on the server
\* and assistant of "gitlab"
JiraConfig ==
    [host |-> "127.0.0.1", port |-> AgentPort("jira"), name |-> AgentName("jira"),
     registry_enabled |-> FALSE, assistant_id |-> Uuid2]

JiraAlias ==
    [host |-> "127.0.0.1", port |-> AgentPort("gitlab"), name |-> AgentName("gitlab"),
     registry_enabled |-> FALSE, assistant_id |-> Uuid1]

AgentMaps ==
    {("gitlab" :> g) : g \in AgentConfigs("gitlab")}
    \cup {("gitlab" :> g) @@ ("jira" :> j) :
             g \in AgentConfigs("gitlab"), j \in {JiraConfig, JiraAlias}}

Configs ==
    {cfg \in [agents : AgentMaps, registry : RegistryConfigs, mode : {"keywords"},
              default_agent : {None, "jira"}, attempts : 0..MaxRegAttempts] :
       LET gitlab == cfg.agents["gitlab"] IN
       /\ gitlab.registry_enabled => gitlab.assistant_id = None
       /\ cfg.registry = TheRegistry => gitlab.registry_enabled
       /\ Truthy(cfg.default_agent) => Truthy(gitlab.assistant_id)
       /\ "jira" \in DOMAIN cfg.agents /\ cfg.agents["jira"] = JiraAlias
             => Truthy(gitlab.assistant_id)}

(***************************************************************************)
(* services/config.get_config: the cached, hot-reloaded configuration.     *)
(***************************************************************************)
MaxMtime == 2

DEFAULT_CONFIG_PATH == "agents_config.yaml"

\* the paths AGENTS_CONFIG_PATH can name, and the default path
ConfigPaths == {DEFAULT_CONFIG_PATH, "/etc/router/agents.yaml"}

\* the text of a configuration file: two valid configurations, a text that
\* is not YAML, a YAML text that is not a valid Config
FileTexts == {"agents: {gitlab}", "agents: {gitlab, jira}", "agents: [", "agents: 7"}

NoFile == [is_file |-> FALSE, st_mtime |-> 0, text |-> ""]

\* _config before the first load (line 18)
NoneConfig == [is_none |-> TRUE, agents |-> {}]

\* the parsed document: the keys of its agents mapping, if it is one
NoData == [agents_is_map |-> FALSE, agents |-> {}]

\* yaml.safe_load(f) (line 52)
YamlLoad(text) ==
    CASE text = "agents: [" -> [status |-> "raise", err |-> "YAMLError", data |-> NoData]
      [] text = "agents: {gitlab}" ->
           [status |-> "ok", err |-> None,
            data |-> [agents_is_map |-> TRUE, agents |-> {"gitlab"}]]
      [] text = "agents: {gitlab, jira}" ->
           [status |-> "ok", err |-> None,
            data |-> [agents_is_map |-> TRUE, agents |-> {"gitlab", "jira"}]]
      [] OTHER -> [status |-> "ok", err |-> None, data |-> NoData]

\* Config.model_validate(data) (line 54): the Config, here the keys of its
\* agents
ModelValidate(data) ==
    IF data.agents_is_map
    THEN [status |-> "ok", err |-> None,
          config |-> [is_none |-> FALSE, agents |-> data.agents]]
    ELSE [status |-> "raise", err |-> "ValidationError", config |-> NoneConfig]

\* line 41
CurrentPath(env_path) == IF Truthy(env_path) THEN env_path ELSE DEFAULT_CONFIG_PATH

\* line 48
NeedsLoadMut(g, current_path, mtime) ==
    g._config = NoneConfig \/ current_path # g._config_path
NeedsLoad(g, current_path, mtime) ==
    g._config = NoneConfig \/ current_path # g._config_path \/ mtime # g._last_mtime

NoGlobals == [_config |-> NoneConfig, _config_path |-> None, _last_mtime |-> None]

\* no call of get_config yet; path, mtime: the path and the modification
\* time the call saw (history)
NoLoad == [status |-> "none", config |-> NoneConfig, err |-> None, read |-> FALSE,
           path |-> None, mtime |-> 0]

\* get_config() lines 38-68 on module globals g: the globals after the call,
\* how it ended, and whether it opened the file
GetConfigCall(g, env_path, files) ==
    LET current_path == CurrentPath(env_path)
        file == files[current_path]
        mtime == file.st_mtime
        loaded == YamlLoad(file.text)
        valid == ModelValidate(loaded.data)
    IN  IF ~file.is_file
        THEN [g |-> g, status |-> "raise", config |-> NoneConfig,
              err |-> "FileNotFoundError", read |-> FALSE]
        ELSE IF ~NeedsLoad(g, current_path, mtime)
        THEN [g |-> g, status |-> "ret", config |-> g._config, err |-> None,
              read |-> FALSE]
        ELSE IF loaded.status = "raise"
        THEN [g |-> g, status |-> "raise", config |-> NoneConfig, err |-> loaded.err,
              read |-> TRUE]
        ELSE IF valid.status = "raise"
        THEN [g |-> g, status |-> "raise", config |-> NoneConfig, err |-> valid.err,
              read |-> TRUE]
        ELSE [g |-> [_config |-> valid.config, _config_path |-> current_path,
                     _last_mtime |-> mtime],
              status |-> "ret", config |-> valid.config, err |-> None, read |-> TRUE]

\* a call of get_config
GetConfig ==
    /\ LET r == GetConfigCall(loader.g, fs.env_path, fs.files) IN
       loader' = [g |-> r.g,
                  last |-> [status |-> r.status, config |-> r.config, err |-> r.err,
                            read |-> r.read, path |-> CurrentPath(fs.env_path),
                            mtime |-> fs.files[CurrentPath(fs.env_path)].st_mtime],
                  calls |-> 1 - loader.calls]
    /\ UNCHANGED <<fs, assistant_id_cache, last_resolved, taskVars, fnVars, fwdVars,
                   config, run>>

\* the file at path is written: any text, any modification time
WriteFile ==
    /\ \E path \in ConfigPaths, text \in FileTexts, mtime \in 1..MaxMtime :
         fs' = [fs EXCEPT !.files[path] =
                   [is_file |-> TRUE, st_mtime |-> mtime, text |-> text]]
    /\ UNCHANGED <<loader, assistant_id_cache, last_resolved, taskVars, fnVars,
                   fwdVars, config, run>>

\* the file at path is removed
RemoveFile ==
    /\ \E path \in ConfigPaths :
         /\ fs.files[path].is_file
         /\ fs' = [fs EXCEPT !.files[path] = NoFile]
    /\ UNCHANGED <<loader, assistant_id_cache, last_resolved, taskVars, fnVars,
                   fwdVars, config, run>>

\* AGENTS_CONFIG_PATH is set or unset
SetEnvPath ==
    /\ \E env_path \in ConfigPaths \cup {None} :
         /\ env_path # fs.env_path
         /\ fs' = [fs EXCEPT !.env_path = env_path]
    /\ UNCHANGED <<loader, assistant_id_cache, last_resolved, taskVars, fnVars,
                   fwdVars, config, run>>

(***************************************************************************)
(* Specifications.                                                         *)
(***************************************************************************)
InitTasks ==
    /\ assistant_id_cache = EmptyMap
    /\ last_resolved = EmptyMap
    /\ pc = [p \in Tasks |-> "idle"]
    /\ call = [p \in Tasks |-> NoCall]
    /\ frame = [p \in Tasks |-> NoFrame]
    /\ searches = [p \in Tasks |-> 0]
    /\ out = [p \in Tasks |-> NoOut]
    /\ hist = [p \in Tasks |-> <<>>]

\* the default file holds a valid configuration; get_config was not called
InitLoader ==
    /\ fs = [env_path |-> None,
             files |-> [path \in ConfigPaths |->
                          IF path = DEFAULT_CONFIG_PATH
                          THEN [is_file |-> TRUE, st_mtime |-> 1,
                                text |-> "agents: {gitlab}"]
                          ELSE NoFile]]
    /\ loader = [g |-> NoGlobals, last |-> NoLoad, calls |-> 0]

InitForward ==
    /\ InitLoader
    /\ thread_context = EmptyMap
    /\ a2a = [p \in Tasks |-> NoA2a]
    /\ graph_state = NoGraphState
    /\ turn = NoTurn
    /\ last_thread = EmptyMap
    /\ run = [p \in Tasks |-> NoRun]

\* no graph run: the configuration is not read
InitNoConfig == config = NoConfig

Init ==
    /\ InitTasks
    /\ fn_arg = NoArg
    /\ fn_res = NoRes
    /\ impl = "router_app"
    /\ InitForward
    /\ InitNoConfig

\* the resolver: task t1 makes calls with any arguments, one after the other;
\* task t2 makes direct-discovery calls for "gitlab" that overlap with them
Next ==
    \/ StartResolve("t1")
    \/ StartResolveDirect("t2")
    \/ \E p \in Tasks : SearchReply(p)
    \/ \E p \in Tasks : RegistryPostReply(p)
    \/ \E p \in Tasks : BackoffDone(p)
    \/ \E p \in Tasks : TakeResult(p)
    \/ ClearCache

Spec == Init /\ [][Next]_vars

\* the transport alone: one task calling send_message again and again
NextSend ==
    \/ StartSend("t1")
    \/ SendPostReply("t1")
    \/ BackoffDone("t1")
    \/ TakeResult("t1")

SpecSend == Init /\ [][NextSend]_vars

\* the transport when every awaited POST and every awaited backoff sleep
\* completes (lines 74 and 84: the event loop resumes the coroutine)
SpecSendFair ==
    /\ SpecSend
    /\ WF_vars(SendPostReply("t1"))
    /\ WF_vars(BackoffDone("t1"))

\* the configuration loader alone: calls of get_config between changes of
\* the files and of the environment
NextConfig ==
    \/ GetConfig
    \/ WriteFile
    \/ RemoveFile
    \/ SetEnvPath

SpecConfig == Init /\ [][NextConfig]_vars

\* the searches alone, on every modelled reply and name
InitSearch ==
    /\ InitTasks
    /\ fn_arg \in [resp : SearchResponses, name : RecordNames \cup {None}]
    /\ fn_res = NoRes
    /\ impl = "router_app"
    /\ InitForward
    /\ InitNoConfig

NextSearch ==
    \/ RunSearchOnTarget
    \/ RunFetchAssistantId
    \/ RunDiscover

SpecSearch == InitSearch /\ [][NextSearch]_vars

\* forwarding: in router_app task t1 runs a2a_send with any retry setting and
\* task t2 runs a2a_send calls of one attempt that overlap with them; in the
\* LangGraph packages the turns of one thread run one after the other
InitFwd ==
    /\ InitTasks
    /\ fn_arg = NoArg
    /\ fn_res = NoRes
    /\ impl \in Packages
    /\ InitForward
    /\ InitNoConfig

NextFwd ==
    \/ A2aSendStart("t1")
    \/ A2aSendStartOnce("t2")
    \/ \E p \in Tasks : A2aSendPostReply(p)
    \/ \E p \in Tasks : A2aSendBackoffDone(p)
    \/ \E p \in Tasks : A2aSendClosed(p)
    \/ \E p \in Tasks : TakeResult(p)
    \/ GraphTurn

SpecFwd == InitFwd /\ [][NextFwd]_vars

\* the reply parsers alone, on every modelled reply body
InitNorm ==
    /\ InitTasks
    /\ fn_arg \in NormInputs
    /\ fn_res = NoNormRes
    /\ impl = "router_app"
    /\ InitForward
    /\ InitNoConfig

NextNorm ==
    \/ RunFromParts
    \/ RunSarNormalize
    \/ RunExtractResponseText
    \/ RunA2aNormalize

SpecNorm == InitNorm /\ [][NextNorm]_vars

\* build_service_url alone, on every modelled host, port and endpoint
InitUrl ==
    /\ InitTasks
    /\ fn_arg \in UrlInputs
    /\ fn_res = NoUrlRes
    /\ impl = "router_app"
    /\ InitForward
    /\ InitNoConfig

NextUrl == RunBuildServiceUrl

SpecUrl == InitUrl /\ [][NextUrl]_vars

\* runs of the router_app graph under one configuration: a task runs the
\* graph again and again and can be cancelled at its awaits; reset_thread and
\* clear_cache are called at any time in between
Runners == {"t1"}

InitRun ==
    /\ InitTasks
    /\ fn_arg = NoArg
    /\ fn_res = NoRes
    /\ impl = "router_app"
    /\ InitForward
    /\ config \in Configs

NextRun ==
    \/ \E p \in Runners : RunStart(p)
    \/ \E p \in Runners : ResolveAgentCall(p)
    \/ \E p \in Runners : SearchReply(p)
    \/ \E p \in Runners : RegistryPostReply(p)
    \/ \E p \in Runners : BackoffDone(p)
    \/ \E p \in Runners : ResolveAgentReturn(p)
    \/ \E p \in Runners : A2aSendCall(p)
    \/ \E p \in Runners : A2aSendPostReply(p)
    \/ \E p \in Runners : A2aSendBackoffDone(p)
    \/ \E p \in Runners : A2aSendClosed(p)
    \/ \E p \in Runners : A2aSendReturn(p)
    \/ \E p \in Runners : FormatOutput(p)
    \/ \E p \in Runners : Cancel(p)
    \/ \E p \in Runners : RunTaken(p)
    \/ ResetThread
    \/ ClearCache

SpecRun == InitRun /\ [][NextRun]_vars

(***************************************************************************)
(* Properties of A2AClient.send_message (under SpecSend).  The classes of  *)
(* responses are spelled out here as the claims word them.                 *)
(***************************************************************************)
RetriableFailure(r) ==
    \/ r.kind = "timeout"
    \/ r.kind = "network"
    \/ r.kind = "http" /\ r.status \in {502, 503, 504}

DecodableSuccess(r) == r.kind = "http" /\ r.status = 200 /\ r.body.decodable

PermanentFailure(r) ==
    \/ r.kind = "http" /\ r.status >= 400 /\ r.status \notin {502, 503, 504}
    \/ r.kind = "http" /\ r.status = 200 /\ ~r.body.decodable

\* the exception e is the failure of response r
ErrorIsOf(e, r) ==
    \/ r.kind = "timeout" /\ e.type = "TimeoutException"
    \/ r.kind = "network" /\ e.type = "NetworkError"
    \/ r.kind = "http" /\ r.status >= 400 /\ e.type = "HTTPStatusError" /\ e.status = r.status
    \/ r.kind = "http" /\ r.status = 200 /\ ~r.body.decodable /\ e.type = "JSONDecodeError"

AllRetriable(h, n) == \A i \in 1..n : RetriableFailure(h[i])

\* C1: with attempts = N >= 1, when the first k-1 responses (1 <= k <= N) are
\* retriable failures and response k is a success with a decodable body, the
\* call has returned that body after exactly k sends and k-1 backoff sleeps;
\* while only retriable failures have arrived and attempts remain, the call is
\* still running (it has not failed).
C1_RetryThenSuccess ==
    \A p \in Tasks :
        LET h == hist[p]
            k == Len(h)
            N == call[p].attempts IN
        (call[p].op = "send" /\ N >= 1 /\ k >= 1 /\ k <= N) =>
            /\ (AllRetriable(h, k - 1) /\ DecodableSuccess(h[k])) =>
                   /\ pc[p] = "done"
                   /\ out[p].status = "ret"
                   /\ out[p].body = h[k].body
                   /\ frame[p].sends = k
                   /\ frame[p].sleeps = k - 1
            /\ (AllRetriable(h, k) /\ k < N) =>
                   /\ pc[p] \in {"sleep", "post"}
                   /\ out[p].status = "none"

\* attempts = 3, two 503 responses then a 200: success, 3 sends, 2 sleeps
C1_Witness ==
    /\ call["t1"].op = "send"
    /\ call["t1"].attempts = 3
    /\ Len(hist["t1"]) = 3
    /\ hist["t1"][1].status = 503
    /\ hist["t1"][2].status = 503
    /\ DecodableSuccess(hist["t1"][3])
    /\ out["t1"].status = "ret"
    /\ out["t1"].body = hist["t1"][3].body
    /\ frame["t1"].sends = 3
    /\ frame["t1"].sleeps = 2

\* C2: an HTTP error status outside {502, 503, 504}, or a success status with
\* an undecodable body, at attempt k ends the call with that failure: k sends
\* in total, no backoff sleep after it, no further attempt.
C2_PermanentFailureNotRetried ==
    \A p \in Tasks :
        LET h == hist[p]
            k == Len(h) IN
        (call[p].op = "send" /\ k >= 1 /\ PermanentFailure(h[k])) =>
            /\ pc[p] = "done"
            /\ out[p].status = "raise"
            /\ ErrorIsOf(out[p].err, h[k])
            /\ frame[p].sends = k
            /\ frame[p].sleeps = k - 1

\* attempts = 3: a 503, then a 200 whose body is not JSON, fails at 2 sends
C2_Witness ==
    /\ call["t1"].op = "send"
    /\ call["t1"].attempts = 3
    /\ Len(hist["t1"]) = 2
    /\ hist["t1"][1].status = 503
    /\ hist["t1"][2].status = 200
    /\ ~hist["t1"][2].body.decodable
    /\ pc["t1"] = "done"
    /\ out["t1"].err.type = "JSONDecodeError"
    /\ frame["t1"].sends = 2
    /\ frame["t1"].sleeps = 1

\* C3: when all N >= 1 attempts end in retriable failures the call has failed
\* after exactly N sends and N-1 sleeps, raising the error of the last attempt.
C3_ExhaustedRaisesLast ==
    \A p \in Tasks :
        LET h == hist[p]
            N == call[p].attempts IN
        (call[p].op = "send" /\ N >= 1 /\ Len(h) = N /\ AllRetriable(h, N)) =>
            /\ pc[p] = "done"
            /\ out[p].status = "raise"
            /\ ErrorIsOf(out[p].err, h[N])
            /\ frame[p].sends = N
            /\ frame[p].sleeps = N - 1

\* attempts = 3: a 503, a timeout, a 502: HTTPStatusError(502) is raised
C3_Witness ==
    /\ call["t1"].op = "send"
    /\ call["t1"].attempts = 3
    /\ Len(hist["t1"]) = 3
    /\ hist["t1"][1].status = 503
    /\ hist["t1"][2].kind = "timeout"
    /\ hist["t1"][3].status = 502
    /\ out["t1"].status = "raise"
    /\ out["t1"].err = Exc("HTTPStatusError", 502, "")
    /\ frame["t1"].sends = 3
    /\ frame["t1"].sleeps = 2

(***************************************************************************)
(* Properties of resolve_assistant_id (under Spec).                        *)
(***************************************************************************)
\* the Assistant Id Cache key of the agent a call is for
TargetKey(c) == <<c.agent_key, c.agent_config.host, c.agent_config.port>>

\* task p enters resolve_assistant_id in this step
ResolveStarts(p) == pc[p] = "idle" /\ pc'[p] # "idle" /\ call'[p].op = "resolve"

\* task p's resolve_assistant_id ends in this step
ResolveEnds(p) == pc[p] # "done" /\ pc'[p] = "done" /\ call'[p].op = "resolve"

\* the step in which the search POST of task p completes without giving an id
DirectGaveNothing(p) == pc[p] = "search" /\ pc'[p] # "search" /\ out'[p].status # "ret"

NotResolvedText(k) == "Could not resolve assistant_id for agent: " \o k

MisconfiguredText == "Registry is enabled for agent but not configured globally."

\* C4: the strategies are tried in the order cache, static id, direct
\* discovery, registry, stopping at the first success: a call that finds a
\* cache entry returns it, whatever the static id is, without network I/O; one
\* that finds none but has a static id returns that without network I/O;
\* otherwise the search POST is issued first, and when it yields an id the call
\* returns without a send to the registry; the registry is contacted only
\* after the search has completed.
C4_StrategyOrder ==
    [][\A p \in Tasks :
        /\ ResolveStarts(p) =>
             LET c == call'[p]
                 ck == TargetKey(c) IN
             IF ck \in DOMAIN assistant_id_cache
             THEN /\ pc'[p] = "done"
                  /\ out'[p].status = "ret"
                  /\ out'[p].id = assistant_id_cache[ck]
                  /\ searches'[p] = 0
                  /\ frame'[p].sends = 0
             ELSE IF c.agent_config.assistant_id # None
             THEN /\ pc'[p] = "done"
                  /\ out'[p].status = "ret"
                  /\ out'[p].id = c.agent_config.assistant_id
                  /\ searches'[p] = 0
                  /\ frame'[p].sends = 0
             ELSE /\ pc'[p] = "search"
                  /\ searches'[p] = 1
                  /\ frame'[p].sends = 0
        /\ (pc[p] = "search" /\ out'[p].status = "ret") =>
             /\ pc'[p] = "done"
             /\ frame'[p].sends = 0
        /\ (pc[p] # "post" /\ pc'[p] = "post") => pc[p] \in {"search", "sleep"}
      ]_vars

\* a cached id is returned although the static id passed now differs
C4_Witness ==
    /\ pc["t1"] = "done"
    /\ call["t1"].op = "resolve"
    /\ call["t1"].agent_config.assistant_id = Uuid1
    /\ out["t1"].status = "ret"
    /\ out["t1"].id = Uuid2
    /\ assistant_id_cache[TargetKey(call["t1"])] = Uuid2
    /\ searches["t1"] = 0
    /\ frame["t1"].sends = 0

\* C5: a call made after a successful call for the same (agent_key, host,
\* port), the cache not cleared in between, returns the id of that call as a
\* pure cache hit: no search POST and no registry RPC.
C5_SecondCallIsCacheHit ==
    [][\A p \in Tasks :
        (ResolveStarts(p) /\ TargetKey(call'[p]) \in DOMAIN last_resolved) =>
            /\ pc'[p] = "done"
            /\ out'[p].status = "ret"
            /\ out'[p].id = last_resolved[TargetKey(call'[p])]
            /\ searches'[p] = 0
            /\ frame'[p].sends = 0
      ]_vars

\* a second call, for an agent without static id, answered from the cache
C5_Witness ==
    /\ pc["t1"] = "done"
    /\ call["t1"].op = "resolve"
    /\ call["t1"].agent_config.assistant_id = None
    /\ TargetKey(call["t1"]) \in DOMAIN last_resolved
    /\ out["t1"].status = "ret"
    /\ out["t1"].id = last_resolved[TargetKey(call["t1"])]
    /\ searches["t1"] = 0
    /\ frame["t1"].sends = 0

\* C6: at the step in which resolve_assistant_id returns an id, the cache
\* entry under (agent_key, agent host, agent port) is that id.
C6_CachedAtReturn ==
    [][\A p \in Tasks :
        (ResolveEnds(p) /\ out'[p].status = "ret") =>
            /\ TargetKey(call'[p]) \in DOMAIN assistant_id_cache'
            /\ assistant_id_cache'[TargetKey(call'[p])] = out'[p].id
      ]_vars

\* an id found by the registry is cached under the agent's key, and nothing
\* is cached under the registry's host and port
C6_Witness ==
    /\ pc["t1"] = "done"
    /\ call["t1"].op = "resolve"
    /\ out["t1"].status = "ret"
    /\ frame["t1"].sends >= 1
    /\ frame["t1"].to = <<"127.0.0.1", 2026, RegistryUuid>>
    /\ assistant_id_cache[TargetKey(call["t1"])] = out["t1"].id
    /\ <<call["t1"].agent_key, "127.0.0.1", 2026>> \notin DOMAIN assistant_id_cache

\* C7: a call that ends without an id, the registry being disabled or
\* configured, ends by raising the not-resolved error that names its agent
\* key, in a step that leaves the cache unchanged; and the cache changes only
\* by clear_cache or in a step in which some call returns an id.
C7_NotResolvedLeavesCache ==
    [][/\ \A p \in Tasks :
            (/\ pc[p] \in {"search", "post", "sleep"}
             /\ pc'[p] = "done"
             /\ call[p].op = "resolve"
             /\ out'[p].status # "ret"
             /\ ~(call[p].agent_config.registry_enabled /\ call[p].registry_config = NoRegistry)) =>
                /\ out'[p].status = "raise"
                /\ out'[p].err.type = "ValueError"
                /\ out'[p].err.msg = NotResolvedText(call[p].agent_key)
                /\ assistant_id_cache' = assistant_id_cache
       /\ (assistant_id_cache' # assistant_id_cache) =>
            \/ assistant_id_cache' = EmptyMap
            \/ \E p \in Tasks : ResolveEnds(p) /\ out'[p].status = "ret"
      ]_vars

\* the registry was queried and gave nothing: not resolved, nothing cached
C7_Witness ==
    /\ pc["t1"] = "done"
    /\ call["t1"].op = "resolve"
    /\ call["t1"].agent_config.registry_enabled
    /\ call["t1"].registry_config = TheRegistry
    /\ searches["t1"] = 1
    /\ frame["t1"].sends >= 1
    /\ out["t1"].status = "raise"
    /\ out["t1"].err.msg = NotResolvedText(call["t1"].agent_key)
    /\ TargetKey(call["t1"]) \notin DOMAIN assistant_id_cache

\* C8 as claimed: every finished call for an agent with registry_enabled set
\* and no registry configuration has failed with the misconfigured-registry
\* error.
C8_AlwaysMisconfigured ==
    \A p \in Tasks :
        (/\ pc[p] = "done"
         /\ call[p].op = "resolve"
         /\ call[p].agent_config.registry_enabled
         /\ call[p].registry_config = NoRegistry) =>
            /\ out[p].status = "raise"
            /\ out[p].err.msg = MisconfiguredText

\* C8 as amended: for an agent with registry_enabled set and no registry
\* configuration, when direct discovery has given no id (no cache entry and
\* no static id before it), the call fails with the misconfigured-registry
\* error, which is not the not-resolved error, without a send to any registry
\* and without changing the cache.
C8_MisconfiguredAfterDirect ==
    [][\A p \in Tasks :
        (/\ DirectGaveNothing(p)
         /\ call[p].agent_config.registry_enabled
         /\ call[p].registry_config = NoRegistry) =>
            /\ pc'[p] = "done"
            /\ out'[p].status = "raise"
            /\ out'[p].err.msg = MisconfiguredText
            /\ out'[p].err.msg # NotResolvedText(call[p].agent_key)
            /\ frame'[p].sends = 0
            /\ frame'[p].to = NoTarget
            /\ assistant_id_cache' = assistant_id_cache
      ]_vars

C8_Witness ==
    /\ pc["t1"] = "done"
    /\ call["t1"].op = "resolve"
    /\ call["t1"].agent_config.registry_enabled
    /\ call["t1"].registry_config = NoRegistry
    /\ searches["t1"] = 1
    /\ frame["t1"].sends = 0
    /\ out["t1"].status = "raise"
    /\ out["t1"].err.msg = MisconfiguredText

\* C9: a call for an agent whose registry_enabled is false never sends to the
\* registry, and when it ends without an id it raises the not-resolved error.
C9_RegistryDisabledNeverQueried ==
    \A p \in Tasks :
        (call[p].op = "resolve" /\ ~call[p].agent_config.registry_enabled) =>
            /\ frame[p].sends = 0
            /\ frame[p].to = NoTarget
            /\ pc[p] \notin {"post", "sleep"}
            /\ (pc[p] = "done" /\ out[p].status # "ret") =>
                   /\ out[p].status = "raise"
                   /\ out[p].err.msg = NotResolvedText(call[p].agent_key)

\* direct discovery failed, a registry is configured, the flag is false
C9_Witness ==
    /\ pc["t1"] = "done"
    /\ call["t1"].op = "resolve"
    /\ ~call["t1"].agent_config.registry_enabled
    /\ call["t1"].registry_config = TheRegistry
    /\ searches["t1"] = 1
    /\ frame["t1"].sends = 0
    /\ out["t1"].status = "raise"
    /\ out["t1"].err.msg = NotResolvedText(call["t1"].agent_key)

(***************************************************************************)
(* Properties of the search (under SpecSearch).                            *)
(***************************************************************************)
\* the returned records named n
Named(records, n) == {i \in 1..Len(records) : records[i].name = n}

\* C10: with a configured name, _search_on_target yields an id only when
\* exactly one returned record has that name (and its id is a valid UUID);
\* with no or several records of that name it yields none.
C10_SelectsOnlyUniqueName ==
    (fn_res.fn = "search_on_target" /\ fn_arg.resp.kind = "list") =>
        LET named == Named(fn_arg.resp.records, fn_arg.name) IN
        /\ fn_res.status = "id" =>
             /\ Cardinality(named) = 1
             /\ \A i \in named : IsUuidString(fn_arg.resp.records[i].assistant_id)
        /\ Cardinality(named) # 1 => fn_res.status = "none"

(***************************************************************************)
(* Properties of forwarding and of the thread store (under SpecFwd).       *)
(***************************************************************************)
\* task p enters a2a_send and gets past its early return
ForwardStarts(p) == pc[p] = "idle" /\ pc'[p] \in {"fwd_post", "fwd_close"}

\* a turn of a LangGraph package is run
TurnRuns == turn'.no # turn.no

\* the request carries thread id t (as params.thread.threadId, or as the
\* params.contextId that the agentic_router package writes)
CarriesThread(payload, t) ==
    \/ payload.has_thread /\ payload.threadId = t
    \/ payload.contextId = t

\* C11: when a forward for an agent key starts after a successful forward for
\* that key whose reply carried thread id T, and no later successful reply for
\* the key carried another id (replies since then carried none), the request
\* it sends carries T.
C11_NextForwardSendsThread ==
    [][/\ \A p \in Tasks :
            ForwardStarts(p) /\ a2a'[p].target_agent_key \in DOMAIN last_thread
                => CarriesThread(a2a'[p].payload, last_thread[a2a'[p].target_agent_key])
       /\ TurnRuns /\ turn'.agent_key \in DOMAIN last_thread
            => CarriesThread(turn'.payload, last_thread[turn'.agent_key])]_vars

\* a step of task p
Steps(p) == pc'[p] # pc[p] \/ a2a'[p] # a2a[p]

\* the thread store of a LangGraph package
GraphThreads(state) == <<state.thread_id, state.thread_map>>

ThreadFieldIffStored(payload, stored) ==
    /\ payload.has_thread <=> stored # None
    /\ payload.has_thread => payload.threadId = stored

\* C13: the request a forward sends has params.thread.threadId if and only if
\* a thread id is stored for the target agent when the forward starts; with
\* none stored it has no thread field (no empty string, no generated id).
C13_ThreadFieldIffStored ==
    [][/\ \A p \in Tasks :
            ForwardStarts(p)
                => ThreadFieldIffStored(a2a'[p].payload,
                                        Get(thread_context, a2a'[p].thread_key))
       /\ TurnRuns /\ impl \in {"src.agentic_router", "src.nodes"}
            => ThreadFieldIffStored(turn'.payload,
                                    Get(graph_state.thread_map, turn'.agent_key))]_vars

\* the reply that ends task p's forward arrives
ReplyEnds(p) == pc[p] = "fwd_post" /\ pc'[p] = "fwd_close"

\* C14: a decoded reply with a top-level error member makes the forward fail,
\* whatever result it also carries: the forward does not return success and
\* the thread store is not updated.
C14_ErrorMemberFailsForward ==
    [][/\ \A p \in Tasks :
            ReplyEnds(p) /\ a2a'[p].reply.has_error
                => a2a'[p].res.status = "error" /\ thread_context' = thread_context
       /\ TurnRuns /\ turn'.reply.has_error
            => /\ turn'.out.status = "raise"
               /\ GraphThreads(graph_state') = GraphThreads(graph_state)]_vars

(***************************************************************************)
(* Properties of the reply parsers (under SpecNorm).  What the claims      *)
(* expect of a result is spelled out here in their own words.              *)
(***************************************************************************)
\* a string that is present and neither empty nor whitespace only
NonEmptyString(v) == v # None /\ v # "" /\ v # "  "

\* the first element of seq that is a non-empty string, None if there is none
FirstNonEmpty(seq) ==
    IF \E i \in 1..Len(seq) : NonEmptyString(seq[i])
    THEN seq[CHOOSE i \in 1..Len(seq) :
                 /\ NonEmptyString(seq[i])
                 /\ \A j \in 1..(i - 1) : ~NonEmptyString(seq[j])]
    ELSE None

\* the first non-empty of contextId, threadId, thread.threadId, context.threadId
ExpectedThread(result) ==
    FirstNonEmpty(<<result.contextId, result.threadId, result.thread_threadId,
                    result.context_threadId>>)

\* the result has the text of the A2A example, artifacts[0].parts[0]
HasExampleText(result) ==
    /\ result.artifacts # <<>>
    /\ result.artifacts[1].parts # <<>>
    /\ result.artifacts[1].parts[1].kind = "text"
    /\ NonEmptyString(result.artifacts[1].parts[1].text)

\* the parsers of a whole result
ResultParsers == {"extract_text_and_thread", "extract_response_text", "a2a_send"}

\* C15: the thread id a parser extracts is the first non-empty string among
\* result.contextId, result.threadId, result.thread.threadId and
\* result.context.threadId (empty and blank ones skipped), None when there is
\* none; a result with text and no thread id still parses.
C15_FirstNonEmptyThreadId ==
    /\ fn_res.fn \in {"extract_text_and_thread", "extract_response_text"}
    /\ ~fn_arg.has_error
    => /\ fn_res.status = "ok" => fn_res.thread_id = ExpectedThread(fn_arg.result)
       /\ HasExampleText(fn_arg.result) => fn_res.status = "ok"

\* a text part: its kind or type is "text"
IsTextPart(part) == part.kind = "text" \/ part.type = "text"

\* the part-scanning rule: the text of the first text part with non-empty text
ExpectedPartsText(parts) ==
    IF \E i \in 1..Len(parts) : IsTextPart(parts[i]) /\ NonEmptyString(parts[i].text)
    THEN parts[CHOOSE i \in 1..Len(parts) :
                   /\ IsTextPart(parts[i]) /\ NonEmptyString(parts[i].text)
                   /\ \A j \in 1..(i - 1) :
                          ~(IsTextPart(parts[j]) /\ NonEmptyString(parts[j].text))].text
    ELSE None

\* the last entry of entries with a role in roles, 0 if there is none
LastWithRole(entries, roles) ==
    IF \E i \in 1..Len(entries) : entries[i].role \in roles
    THEN CHOOSE i \in 1..Len(entries) :
             /\ entries[i].role \in roles
             /\ \A j \in (i + 1)..Len(entries) : entries[j].role \notin roles
    ELSE 0

\* what each of the six shapes yields, None when it yields no text
ExpectedShapeTexts(result) ==
    LET msgs == result.messages
        m == IF LastWithRole(msgs, {"assistant", "ai"}) # 0
             THEN LastWithRole(msgs, {"assistant", "ai"}) ELSE Len(msgs)
        h == LastWithRole(result.history, {"agent"}) IN
    << IF result.artifacts = <<>> THEN None
       ELSE ExpectedPartsText(result.artifacts[1].parts),
       IF result.artifacts = <<>> THEN None
       ELSE FirstNonEmpty(<<result.artifacts[1].text>>),
       IF msgs = <<>> THEN None
       ELSE FirstNonEmpty(<<msgs[m].content, ExpectedPartsText(msgs[m].parts)>>),
       IF h = 0 THEN None ELSE ExpectedPartsText(result.history[h].parts),
       FirstNonEmpty(<<result.output_text, result.content, result.text>>),
       FirstNonEmpty(<<result.choices_content>>) >>

\* the text of the highest-priority shape that yields one
ExpectedText(result) == FirstNonEmpty(ExpectedShapeTexts(result))

\* C16: for a result with any of the six shapes, a parser returns the text of
\* the highest-priority shape that yields non-empty text (artifacts[0].parts,
\* artifacts[0].text, messages, history, flat fields, choices); a result with
\* only one of the shapes is accepted.  Stated for the results whose shapes
\* are each absent, blank or one plain text.
C16_HighestPriorityShape ==
    /\ fn_res.fn \in ResultParsers
    /\ ~fn_arg.has_error
    /\ fn_arg.result \in ShapeInputs
    /\ ExpectedText(fn_arg.result) # None
    => fn_res.status = "ok" /\ fn_res.text = ExpectedText(fn_arg.result)

\* the parts array handed to _from_parts
ScannedParts == fn_arg.result.artifacts[1].parts

\* C17: scanning a parts array gives the text of the first part whose kind or
\* type is "text" and whose text is non-empty; a part of another kind is
\* skipped even if it has a text, a text part with empty text is skipped and
\* a later text part is still found.  Stated for parts without a content
\* field.
C17_FirstNonEmptyTextPart ==
    /\ fn_res.fn = "from_parts"
    /\ \A i \in 1..Len(ScannedParts) : ScannedParts[i].content = None
    => IF ExpectedPartsText(ScannedParts) = None
       THEN ~Truthy(fn_res.text)
       ELSE fn_res.text = ExpectedPartsText(ScannedParts)

\* C18: when a parser succeeds the text it returns is neither empty nor
\* whitespace only; a reply with an absent or empty result makes it fail.
C18_ParsedTextNonEmpty ==
    fn_res.fn \in ResultParsers
    => /\ fn_res.status = "ok" => NonEmptyString(fn_res.text)
       /\ fn_arg.result = EmptyResult => fn_res.status = "raise"

(***************************************************************************)
(* Properties of build_service_url (under SpecUrl).                        *)
(***************************************************************************)
\* the text of a URL between "://" and the next slash
Authority(url) == PartitionHead(After(url, ColonSlashSlash), <<"/">>)

\* the authority as the host string is written: without blanks around it and
\* without its scheme prefix, up to the first slash
WrittenAuthority(host) ==
    LET h == RepairScheme(Strip(host, Whitespace)) IN
    PartitionHead(IF Contains(h, ColonSlashSlash) THEN After(h, ColonSlashSlash) ELSE h,
                  <<"/">>)

\* the text after the closing bracket of an IPv6 literal, all of it when
\* there is none
AfterBracket(authority) == Drop(authority, RFind(authority, <<"]">>))

\* the digits of the port an authority ends with, <<>> when it ends with none
PortDigits(authority) ==
    LET tail == AfterBracket(authority)
        digits == Drop(tail, RFind(tail, <<":">>))
    IN  IF /\ Contains(tail, <<":">>)
           /\ digits # <<>>
           /\ \A j \in 1..Len(digits) : IsDigit(digits[j])
        THEN digits
        ELSE <<>>

\* C19: a URL that build_service_url returns has exactly one port: the one
\* written in the host string when it has one, otherwise the configured one,
\* also after the closing bracket of an IPv6 literal.
C19_ExactlyOnePort ==
    fn_res.fn = "build_service_url" /\ fn_res.status = "ok"
    => LET written == PortDigits(WrittenAuthority(fn_arg.host))
           result == Authority(fn_res.url)
       IN  PortDigits(result) = IF written # <<>> THEN written ELSE Str(fn_arg.port)

\* the path of a URL: what follows its authority
PathOf(url) == Drop(After(url, ColonSlashSlash), Len(Authority(url)))

\* the base path as the host string is written: what follows its authority
WrittenBasePath(host) ==
    LET h == RepairScheme(Strip(host, Whitespace)) IN
    Drop(IF Contains(h, ColonSlashSlash) THEN After(h, ColonSlashSlash) ELSE h,
         Len(WrittenAuthority(host)))

\* the non-empty pieces between the slashes of a path
Pieces(path) == SelectSeq(Split(path, <<"/">>), LAMBDA piece : piece # <<>>)

ExpectedSegments ==
    Pieces(WrittenBasePath(fn_arg.host)) \o Pieces(Strip(fn_arg.endpoint, Whitespace))

\* C20: the path of a URL that build_service_url returns is the segments of
\* the host's base path followed by those of the endpoint, each behind one
\* slash: no slash is doubled, no segment is empty and no base segment is lost.
C20_PathIsBaseThenEndpoint ==
    fn_res.fn = "build_service_url" /\ fn_res.status = "ok"
    => /\ ~Contains(PathOf(fn_res.url), <<"/", "/">>)
       /\ Pieces(PathOf(fn_res.url)) = ExpectedSegments
       /\ IF ExpectedSegments = <<>>
          THEN PathOf(fn_res.url) \in {<<>>, <<"/">>}
          ELSE PathOf(fn_res.url) = <<"/">> \o Join(ExpectedSegments, <<"/">>)

\* a base path and an endpoint, both with segments and with repeated or
\* trailing slashes, were joined
C20_Witness ==
    /\ fn_res.fn = "build_service_url" /\ fn_res.status = "ok"
    /\ Pieces(WrittenBasePath(fn_arg.host)) # <<>>
    /\ Pieces(fn_arg.endpoint) # <<>>
    /\ EndsWith(WrittenBasePath(fn_arg.host), <<"/">>)
    /\ StartsWith(fn_arg.endpoint, <<"/", "/">>)

\* the host name an authority holds: what follows the user information, up
\* to the colon of the port, or the text in brackets of an IPv6 literal
HostnameOf(authority) ==
    LET hostinfo == RPartitionTail(authority, <<"@">>) IN
    IF Contains(hostinfo, <<"[">>)
    THEN PartitionHead(PartitionTail(hostinfo, <<"[">>), <<"]">>)
    ELSE PartitionHead(hostinfo, <<":">>)

RejectedAsInvalidHost ==
    /\ fn_res.status = "raise"
    /\ fn_res.url = <<>>
    /\ fn_res.err \in {HostEmpty, HostnameRequired}

\* C21: build_service_url fails with the invalid-host error and returns no
\* URL for every host that holds no host name once blanks and the scheme
\* prefix are taken off.
C21_NoHostnameIsRejected ==
    /\ fn_res.fn = "build_service_url"
    /\ HostnameOf(WrittenAuthority(fn_arg.host)) = <<>>
    => RejectedAsInvalidHost

\* the scheme word a host string starts with, <<>> when it starts with none
WrittenScheme(host) ==
    LET lower == Lower(Strip(host, Whitespace)) IN
    IF StartsWith(lower, Https \o <<":">>) \/ StartsWith(lower, Https \o <<"/", "/">>)
    THEN Https
    ELSE IF StartsWith(lower, Http \o <<":">>) \/ StartsWith(lower, Http \o <<"/", "/">>)
    THEN Http
    ELSE <<>>

\* the host starts with "http:" or "https:" and fewer than two slashes
FewerThanTwoSlashes(host) ==
    LET h == Strip(host, Whitespace)
        scheme == WrittenScheme(host)
    IN  /\ scheme # <<>>
        /\ StartsWith(Lower(h), scheme \o <<":">>)
        /\ ~StartsWith(Lower(h), scheme \o ColonSlashSlash)

\* the same host with its scheme prefix spelled "scheme://"
CanonicalSpelling(host) ==
    LET h == Strip(host, Whitespace)
        scheme == WrittenScheme(host)
        behind == Drop(h, Len(scheme) + 1)
    IN  scheme \o ColonSlashSlash
        \o (IF StartsWith(behind, <<"/">>) THEN Tail(behind) ELSE behind)

\* C22: the URL has scheme http when the host names none and the host's own
\* http or https scheme, in lower case, otherwise; a host whose scheme prefix
\* has fewer than two slashes gives what its canonical spelling gives.
C22_SchemeDefaultKeptRepaired ==
    fn_res.fn = "build_service_url"
    => /\ fn_res.status = "ok"
          => Before(fn_res.url, ColonSlashSlash)
             = IF WrittenScheme(fn_arg.host) = <<>> THEN Http
               ELSE WrittenScheme(fn_arg.host)
       /\ FewerThanTwoSlashes(fn_arg.host)
          => fn_res = [fn |-> "build_service_url"]
                      @@ BuildServiceUrl(CanonicalSpelling(fn_arg.host),
                                         fn_arg.port, fn_arg.endpoint)

\* a host written "https:/..." was repaired and a URL returned
C22_Witness ==
    /\ fn_res.fn = "build_service_url" /\ fn_res.status = "ok"
    /\ FewerThanTwoSlashes(fn_arg.host)
    /\ StartsWith(fn_arg.host, Https \o <<":", "/">>)
    /\ StartsWith(fn_res.url, Https \o ColonSlashSlash \o <<"e">>)

(***************************************************************************)
(* Properties of the two stores under overlapping calls.                   *)
(***************************************************************************)
\* the step is a call of clear_cache: the cache is emptied and no task moves
ClearCacheStep == assistant_id_cache' = EmptyMap /\ pc' = pc

\* C28: an entry of the Assistant Id Cache is neither removed nor replaced
\* by another id in any step other than clear_cache, whatever calls overlap.
C28_CacheEntryKept ==
    [][\A key \in DOMAIN assistant_id_cache :
          \/ ClearCacheStep
          \/ /\ key \in DOMAIN assistant_id_cache'
             /\ assistant_id_cache'[key] = assistant_id_cache[key]]_vars

\* C26: in router_app the Thread Store entry of an agent is the thread id
\* returned to the a2a_send call whose reply was processed last among those
\* that returned one, also when calls for the agent overlap; with no such
\* call there is no entry.
C26_LastProcessedReplyWins ==
    impl = "router_app"
    => \A k \in AgentKeys :
          Get(thread_context, ThreadKey(AgentInfo(k))) = Get(last_thread, k)

\* two calls for "gitlab" both read an empty store, both got a thread id,
\* and the reply of t1 was processed after that of t2
C26_Witness ==
    /\ impl = "router_app"
    /\ \A p \in Tasks :
          /\ pc[p] \in {"fwd_close", "done"}
          /\ a2a[p].target_agent_key = "gitlab"
          /\ a2a[p].thread_id = None
          /\ a2a[p].res.status = "ok"
    /\ a2a["t1"].res.thread_id = "ctx-1"
    /\ a2a["t2"].res.thread_id = "ctx-2"
    /\ Get(thread_context, ThreadKey(AgentInfo("gitlab"))) = "ctx-1"

(***************************************************************************)
(* Properties of a run of the router_app graph.                            *)
(***************************************************************************)
\* the network I/O a run has done so far
RunIO(p) ==
    <<run[p].send_calls, run[p].target_sends + (IF call[p].op = "a2a_send" THEN frame[p].sends ELSE 0),
      run[p].search_posts + searches[p],
      run[p].registry_sends + (IF call[p].op = "resolve" THEN frame[p].sends ELSE 0)>>

\* the state of the run of p holds an error
HasError(p) == run[p].node # "none" /\ Truthy(run[p].state.error)

ErrorShortCircuits(p) ==
    HasError(p) =>
       /\ run[p].node \in {"format_output", "end"}
       /\ pc[p] = "idle"
       /\ run[p].node = "end" => run[p].state.response_text = None

ErrorIsFinal(p) ==
    HasError(p) /\ run'[p].node # "none" =>
       /\ run'[p].state.error = run[p].state.error
       /\ RunIO(p)' = RunIO(p)

\* C23: once a node of the router_app graph has set error, the run has only
\* format_output left and no call or await in flight; from then on the error
\* stays as it is and the run does no further send_message call, target send,
\* search POST or registry send; at the end response_text is None.
C23_ErrorShortCircuits ==
    /\ [](\A p \in Tasks : ErrorShortCircuits(p))
    /\ [][\A p \in Tasks : ErrorIsFinal(p)]_vars

\* a run is over whose error resolve_agent set after a search POST
C23_Witness ==
    \E p \in Tasks :
       /\ run[p].node = "end"
       /\ Truthy(run[p].state.error)
       /\ run[p].state.target_agent_key = "gitlab"
       /\ run[p].search_posts = 1
       /\ run[p].send_calls = 0

\* the two outcomes of a run
EndsInError(state) == Truthy(state.error) /\ state.response_text = None
EndsInSuccess(state) == state.error = None /\ Truthy(state.response_text)

\* the call of p that is returning to its node failed: resolve_assistant_id
\* raised, send_message raised, the reply did not parse, or it carried a
\* top-level error member
CallFailed(p) ==
    \/ call[p].op = "resolve" /\ out[p].status = "raise"
    \/ call[p].op = "a2a_send" /\ a2a[p].res.status = "error"
    \/ call[p].op = "a2a_send" /\ a2a[p].reply.has_error

\* the node of p takes the outcome of its call into the state of the run
NodeReturns(p) ==
    /\ run[p].node \in {"resolve_agent", "a2a_send"}
    /\ pc[p] = "done"
    /\ run'[p].node \notin {"none", run[p].node}

\* C24: a run that is over holds either an error and response_text None, or
\* no error and a non-empty response_text; and a node whose call failed in
\* resolution, transport or reply parsing (a remote-agent error included)
\* puts an error in the state.
C24_ErrorOrResponse ==
    /\ [](\A p \in Tasks :
            run[p].node = "end" =>
               EndsInError(run[p].state) \/ EndsInSuccess(run[p].state))
    /\ [][\A p \in Tasks :
            NodeReturns(p) /\ CallFailed(p) => Truthy(run'[p].state.error)]_vars

\* the suspension points of a call before its round trip is over: the search
\* POST, a POST of send_message, a backoff sleep
RoundTripAwaits == {"search", "post", "sleep", "fwd_post", "fwd_sleep"}

StoresUnchanged == UNCHANGED <<thread_context, assistant_id_cache>>

\* the call of p ends its round trip with a result in this step
RoundTripSucceeds(p) ==
    /\ pc[p] \in RoundTripAwaits \cup {"idle"}
    /\ pc'[p] \in {"done", "fwd_close"}
    /\ call'[p].op = "resolve" => out'[p].status = "ret"
    /\ call'[p].op = "a2a_send" => a2a'[p].res.status = "ok"

\* C25: a call writes the Thread Store or the Assistant Id Cache only in the
\* step in which its round trip ends with a result; every step that leaves
\* the call at a suspension point of the round trip, and the cancellation of
\* the call there, leaves both maps as they are.
C25_CancelledCallWritesNothing ==
    [][\A p \in Tasks :
          /\ pc'[p] # pc[p] /\ ~StoresUnchanged => RoundTripSucceeds(p)
          /\ pc'[p] # pc[p] /\ pc'[p] \in RoundTripAwaits \cup {"cancelled"}
                => StoresUnchanged]_vars

\* a forward was cancelled in a backoff sleep while the store held a thread id
C25_Witness ==
    \E p \in Tasks :
       /\ pc[p] = "cancelled"
       /\ call[p].op = "a2a_send"
       /\ frame[p].sleeps >= 1
       /\ a2a[p].thread_key \in DOMAIN thread_context

\* the key under which the Thread Store of router_app holds the thread id of
\* agent key k: host, port and the static or cached assistant id
EntryKey(k) ==
    LET agent_config == config.agents[k] IN
    <<agent_config.host, agent_config.port,
      IF Truthy(agent_config.assistant_id) THEN agent_config.assistant_id
      ELSE Get(assistant_id_cache, <<k, agent_config.host, agent_config.port>>)>>

\* p takes a step of a forward for agent key k
ForwardStep(p, k) ==
    /\ pc'[p] # pc[p]
    /\ \/ call[p].op = "a2a_send" /\ call[p].agent_key = k
       \/ call'[p].op = "a2a_send" /\ call'[p].agent_key = k

\* C27: a forward for agent key A sends a stored thread id only if a reply to
\* a forward for A carried one before (it never reads the entry of another
\* key), and no step of it changes the entry of another configured key B,
\* also when A and B have the same host, port and assistant id.
C27_OtherEntriesUntouched ==
    /\ [](\A p \in Tasks :
            call[p].op = "a2a_send" /\ Truthy(a2a[p].thread_id)
               => call[p].agent_key \in DOMAIN last_thread)
    /\ [][\A p \in Tasks : \A A \in DOMAIN config.agents :
            ForwardStep(p, A) =>
               \A B \in DOMAIN config.agents \ {A} :
                  Get(thread_context', EntryKey(B)) = Get(thread_context, EntryKey(B))]_vars

\* the send_message calls for the target the run of p has made so far
SendMessageCalls(p) ==
    run[p].send_calls
    + (IF call[p].op = "a2a_send" /\ a2a[p].res.status # "bypassed" THEN 1 ELSE 0)

\* the sends and POSTs of the run of p stay within retries.attempts
WithinAttempts(p) ==
    /\ SendMessageCalls(p) <= 1
    /\ RunIO(p)[2] <= config.attempts
    /\ RunIO(p)[3] <= 1
    /\ RunIO(p)[4] <= config.attempts

\* C29 as stated: every run that is over has called send_message for the
\* target exactly once, with at most N sends to the target, one search POST
\* and N sends to the registry, N = retries.attempts.
C29_ExactlyOneCall ==
    \A p \in Tasks :
       run[p].node # "none" =>
          /\ WithinAttempts(p)
          /\ run[p].node = "end" => SendMessageCalls(p) = 1

\* C29 (amended): a run calls send_message for the target at most once, and
\* exactly once when it is over and resolve_agent gave it an agent_info; it
\* makes at most N sends to the target, one search POST and N sends to the
\* registry, N = retries.attempts.
C29_NoOrchestrationRetry ==
    \A p \in Tasks :
       run[p].node # "none" =>
          /\ WithinAttempts(p)
          /\ run[p].node = "end" =>
                (SendMessageCalls(p) = 1 <=> run[p].state.agent_info # NoAgentInfo)

\* a run is over that used every attempt on the registry and on the target
C29_Witness ==
    \E p \in Tasks :
       /\ run[p].node = "end"
       /\ config.attempts = MaxRegAttempts
       /\ run[p].send_calls = 1
       /\ run[p].search_posts = 1
       /\ run[p].registry_sends = config.attempts
       /\ run[p].target_sends = config.attempts

\* reset_thread(k) on the present store does what C30 says of it
ResetForgets(k) ==
    LET store == ResetThreadStore(config, thread_context, k) IN
    /\ EntryKey(k) \notin DOMAIN store
    /\ ~ClientPayload(Get(store, EntryKey(k))).has_thread
    /\ \A other \in DOMAIN config.agents \ {k} :
          Get(store, EntryKey(other)) = Get(thread_context, EntryKey(other))

\* C30: whenever the Thread Store holds a thread id for a configured agent,
\* with a static or a discovered assistant id, reset_thread(agent_key) leaves
\* a store with no entry for it, so that the next a2a_send for it reads and
\* sends no thread id, and with the entries of the other agents as they were.
C30_ResetForgetsThread ==
    \A k \in DOMAIN config.agents :
       EntryKey(k) \in DOMAIN thread_context => ResetForgets(k)

(***************************************************************************)
(* Properties of the registry step and of the search reply.                *)
(***************************************************************************)
\* the registry answered resp: a 2xx reply whose text is a JSON object with
\* an assistant_id that is a UUID
ValidRegistryReply(resp) ==
    /\ IsSuccess(resp)
    /\ resp.body.decodable
    /\ \E s \in IdStrings \ {MalformedId} : resp.body.text = JsonText(s)

\* the resolve of p is over and its last step was the reply of the registry
RegistryAnswered(p) ==
    /\ pc[p] = "done"
    /\ call[p].op = "resolve"
    /\ Len(hist[p]) > 0

LastReply(p) == hist[p][Len(hist[p])]

\* the resolve of p ends in this step, after the registry was asked
RegistryStepEnds(p) ==
    /\ pc[p] \in {"post", "sleep"}
    /\ call[p].op = "resolve"
    /\ pc'[p] = "done"

\* C31: the registry step yields an id exactly when the last reply of the
\* registry is a 2xx reply whose text is JSON with an assistant_id that is a
\* valid UUID, and the id is that UUID; after a transport failure, a reply
\* without text, non-JSON text, a missing assistant_id or a malformed UUID the
\* resolve raises the not-resolved error and its last step leaves the cache
\* unchanged.
C31_RegistryYieldsValidUuidOnly ==
    /\ [](\A p \in Tasks :
            RegistryAnswered(p) =>
               IF ValidRegistryReply(LastReply(p))
               THEN /\ out[p].status = "ret"
                    /\ out[p].via = "registry"
                    /\ \/ LastReply(p).body.text = JsonText(out[p].id)
                       \/ /\ LastReply(p).body.text = JsonText(Uuid1Upper)
                          /\ out[p].id = Uuid1
               ELSE /\ out[p].status = "raise"
                    /\ out[p].err = NotResolvedError(call[p].agent_key))
    /\ [][\A p \in Tasks :
            RegistryStepEnds(p) /\ out'[p].status = "raise"
               => /\ out'[p].err = NotResolvedError(call[p].agent_key)
                  /\ assistant_id_cache' = assistant_id_cache]_vars

\* the registry answered with a malformed UUID and the resolve raised
C31_Witness ==
    \E p \in Tasks :
       /\ RegistryAnswered(p)
       /\ LastReply(p).body.text = JsonText(MalformedId)
       /\ out[p].status = "raise"
       /\ CacheKey(call[p]) \notin DOMAIN assistant_id_cache

\* the same records in the other of the two forms: a bare array, or an
\* object with an items array
OtherForm(resp) ==
    [resp EXCEPT !.kind = IF resp.kind = "list" THEN "object" ELSE "list"]

\* what the search whose result is in fn_res gives on resp
SearchResult(resp) ==
    CASE fn_res.fn = "search_on_target" -> SearchOnTarget(resp, fn_arg.name)
      [] fn_res.fn = "fetch_assistant_id" -> FetchAssistantId(resp, fn_arg.name)
      [] OTHER -> Discover(resp, fn_arg.name)

\* C32: a search applied to records returned as a bare JSON array and to the
\* same records wrapped in an object with an items array selects the same
\* assistant id (or none in both cases).
C32_ArrayOrItemsSameId ==
    fn_res.fn # "none" /\ fn_arg.resp.kind \in {"list", "object"}
    => /\ SearchResult(fn_arg.resp).status = fn_res.status
       /\ SearchResult(OtherForm(fn_arg.resp)).status = fn_res.status
       /\ SearchResult(OtherForm(fn_arg.resp)).id = fn_res.id

(***************************************************************************)
(* Properties of the messages shape (under SpecNorm).                      *)
(***************************************************************************)
\* the entry of msgs the text is taken from: the last one with role
\* "assistant" or "ai", the last one when there is none
ChosenMessage(msgs) ==
    IF LastWithRole(msgs, {"assistant", "ai"}) # 0
    THEN msgs[LastWithRole(msgs, {"assistant", "ai"})]
    ELSE msgs[Len(msgs)]

\* its content if that is a non-empty string, else its parts by the
\* part-scanning rule
ExpectedMessagesText(msgs) ==
    LET m == ChosenMessage(msgs) IN
    IF NonEmptyString(m.content) THEN m.content ELSE ExpectedPartsText(m.parts)

\* C33: for a result with the messages shape only, _extract_text_and_thread
\* returns the content of the last entry with role "assistant" or "ai" (of
\* the last entry when no entry has such a role) if it is a non-empty string,
\* else the text the part-scanning rule finds in its parts, and no other
\* text; an earlier assistant entry is never used.
C33_LastAssistantMessage ==
    /\ fn_res.fn = "extract_text_and_thread"
    /\ fn_arg.result \in MessagesInputs
    => LET expected == ExpectedMessagesText(fn_arg.result.messages) IN
       /\ expected # None => fn_res.status = "ok"
       /\ fn_res.status = "ok" => fn_res.text = expected

(***************************************************************************)
(* Properties of the thread id a request carries (under SpecFwd).          *)
(***************************************************************************)
\* the thread id a request carries, None when it carries none
SentThread(payload) ==
    IF payload.has_thread THEN payload.threadId ELSE payload.contextId

\* the request carries no thread id, or one of the ids the peers issue, and
\* then a reply of agent k carried a thread id before
FromThatAgent(payload, k) ==
    SentThread(payload) # None
    => SentThread(payload) \in ThreadIds /\ k \in DOMAIN last_thread

\* C34: the thread id in a request to an agent is absent or was carried by an
\* earlier reply of that agent: a forward never sends an id to an agent that
\* has not returned one (an id of another agent, after classification
\* switched agents) and never an id the client made up.
C34_ThreadIdFromSameAgent ==
    [][/\ turn'.no # turn.no => FromThatAgent(turn'.payload, turn'.agent_key)
       /\ \A p \in Tasks :
             pc[p] = "idle" /\ pc'[p] = "fwd_post"
                => FromThatAgent(a2a'[p].payload, a2a'[p].target_agent_key)]_vars

(***************************************************************************)
(* Properties of the number of sends of send_message (under SpecSend).     *)
(***************************************************************************)
\* the send_message call of p has failed
SendFailed(p) ==
    pc[p] = "done" /\ call[p].op = "send" /\ out[p].status = "raise"

\* C35: a send_message call that has failed has sent at least one request,
\* whatever value retries.attempts has (0 and negative values included).
C35_FailsOnlyAfterASend ==
    \A p \in Tasks : SendFailed(p) => frame[p].sends >= 1

(***************************************************************************)
(* Termination of send_message (under SpecSendFair).                       *)
(***************************************************************************)
\* a send_message call of p is under way
SendUnderWay(p) == call[p].op = "send" /\ pc[p] \in {"post", "sleep"}

\* the send_message call of p has returned a body or raised
SendOver(p) ==
    call[p].op = "send" /\ pc[p] = "done" /\ out[p].status \in {"ret", "raise"}

\* no more sends than retries.attempts, none when it is 0 or negative
SendsWithinAttempts(p) ==
    IF call[p].attempts <= 0
    THEN frame[p].sends = 0
    ELSE frame[p].sends <= call[p].attempts

\* C36: when every request and every backoff sleep completes, every call of
\* send_message ends, returning a body or raising, and it never makes more
\* network sends than retries.attempts, whatever the peer answers.
C36_SendTerminates ==
    /\ [](\A p \in Tasks : call[p].op = "send" => SendsWithinAttempts(p))
    /\ \A p \in Tasks : SendUnderWay(p) ~> SendOver(p)

\* attempts = 2: a timeout and a 504 end the call after two sends
C36_Witness ==
    /\ SendOver("t1")
    /\ call["t1"].attempts = 2
    /\ frame["t1"].sends = 2
    /\ Len(hist["t1"]) = 2
    /\ hist["t1"][1].kind = "timeout"
    /\ hist["t1"][2].status = 504

(***************************************************************************)
(* Properties of runs whose input has no configured agent (under SpecRun). *)
(***************************************************************************)
\* the text holds a keyword of entry i of the keyword map
HoldsKeyword(text, i) ==
    \E j \in 1..Len(text) : text[j] \in KeywordMap[i].keywords

MatchesNoKeyword(text) == \A i \in 1..Len(KeywordMap) : ~HoldsKeyword(text, i)

\* the key the classification selects for the text, None if it selects none
SelectedKey(cfg, text) ==
    IF MatchesNoKeyword(text) THEN cfg.default_agent
    ELSE KeywordMap[CHOOSE i \in 1..Len(KeywordMap) :
                      /\ HoldsKeyword(text, i)
                      /\ \A j \in 1..(i - 1) : ~HoldsKeyword(text, j)].agent_key

\* the run of p has an input whose selected key is no configured agent, or
\* for which no key is selected
Unroutable(p) ==
    /\ run[p].node # "none"
    /\ LET k == SelectedKey(config, run[p].state.input_text) IN
       k = None \/ k \notin DOMAIN config.agents

\* the run of p goes to its end with an error and calls nothing
EndsWithoutIO(p) ==
    /\ run[p].node \in {"resolve_agent", "format_output", "end"}
    /\ pc[p] = "idle"
    /\ call[p] = NoCall
    /\ RunIO(p) = <<0, 0, 0, 0>>
    /\ run[p].state.agent_info = NoAgentInfo
    /\ run[p].node \in {"format_output", "end"} => Truthy(run[p].state.error)
    /\ run[p].node = "end" => run[p].state.response_text = None

\* with a default agent configured, an input without keyword goes to it
RoutedToDefault(p) ==
    /\ run[p].node # "none"
    /\ Truthy(config.default_agent)
    /\ MatchesNoKeyword(run[p].state.input_text)
    => /\ run[p].state.target_agent_key = config.default_agent
       /\ run[p].state.error # ClassifyError

\* C37: a run whose classification selects a key that is not a configured
\* agent, or selects no key while no default agent is configured, ends with
\* error set, without resolving an assistant and without network I/O; with a
\* default agent configured, an input matching no keyword is routed to the
\* default agent.
C37_UnroutableEndsInError ==
    \A p \in Runners : (Unroutable(p) => EndsWithoutIO(p)) /\ RoutedToDefault(p)

\* "sprint" selects "jira", which the configuration does not hold
C37_Witness ==
    /\ run["t1"].node = "end"
    /\ run["t1"].state.input_text = <<"sprint">>
    /\ "jira" \notin DOMAIN config.agents
    /\ run["t1"].state.error = NotConfiguredError("jira")
    /\ run["t1"].state.agent_info = NoAgentInfo

(***************************************************************************)
(* Properties of get_config (under SpecConfig).                            *)
(***************************************************************************)
\* the step is a call of get_config
GetConfigStep == loader'.calls # loader.calls

\* the text is a YAML document that validates as a Config
FileLoads(text) ==
    /\ YamlLoad(text).status = "ok"
    /\ ModelValidate(YamlLoad(text).data).status = "ok"

\* the path and the modification time are those of the cached configuration
SameFileAsCached(g, path, file) ==
    /\ g._config # NoneConfig
    /\ path = g._config_path
    /\ file.st_mtime = g._last_mtime

\* what a call of get_config does on the file at the current path
CachedOrReloaded ==
    LET g == loader.g
        path == CurrentPath(fs.env_path)
        file == fs.files[path]
        last == loader'.last
    IN  GetConfigStep /\ file.is_file =>
           IF SameFileAsCached(g, path, file)
           THEN /\ last.status = "ret"
                /\ last.config = g._config
                /\ ~last.read
                /\ loader'.g = g
           ELSE /\ last.read
                /\ IF FileLoads(file.text)
                   THEN /\ last.status = "ret"
                        /\ last.config = ModelValidate(YamlLoad(file.text).data).config
                        /\ loader'.g = [_config |-> last.config, _config_path |-> path,
                                        _last_mtime |-> file.st_mtime]
                   ELSE /\ last.status = "raise"
                        /\ last.err \in {"YAMLError", "ValidationError"}
                        /\ loader'.g = g

\* the call after a failed reload, on the same file, reads the file again
RetriesReload ==
    LET path == CurrentPath(fs.env_path)
        file == fs.files[path]
    IN  /\ GetConfigStep
        /\ loader.last.status = "raise"
        /\ loader.last.read
        /\ file.is_file
        /\ path = loader.last.path
        /\ file.st_mtime = loader.last.mtime
        => loader'.last.read

\* C38: get_config returns the cached configuration without reading the file
\* while the path and the modification time are those of the cached one, and
\* reloads when either differs; a reload that fails raises and leaves the
\* cached configuration, path and modification time as they were, so the old
\* configuration is not returned for the changed file and the next call
\* reads the file again.
C38_CachedUntilChanged == [][CachedOrReloaded /\ RetriesReload]_vars

\* a loaded configuration, then the file changed to one that fails validation
C38_Witness ==
    /\ loader.g._config = [is_none |-> FALSE, agents |-> {"gitlab"}]
    /\ loader.g._last_mtime = 1
    /\ loader.last.status = "raise"
    /\ loader.last.err = "ValidationError"
    /\ loader.last.read
    /\ loader.last.path = loader.g._config_path
    /\ loader.last.mtime = 2

=============================================================================
